---- MODULE Spec2Model ----
(***************************************************************************)
(* Model of the message interceptor bot: the routing cache of bot.py, the  *)
(* PostgreSQL store behind database.py and the admin conversation of       *)
(* admin.py.                                                               *)
(*                                                                         *)
(* Texts are sequences of one-character strings, so that strip(), split(), *)
(* lower(), int() and the routing regular expression are computed the way  *)
(* the Python code computes them.                                          *)
(*                                                                         *)
(* Every handler is a coroutine.  A step of the model runs a handler from  *)
(* one await to the next: the awaited call and the statement that uses its *)
(* result form one step.  Handlers of different users interleave at these  *)
(* points; one user's handlers run one after the other.                    *)
(***************************************************************************)
EXTENDS Integers, Sequences, FiniteSets, TLC

\* ------------------------------------------------------------------------
\* Bounds of the model
\* ------------------------------------------------------------------------

\* How many store calls may fail for infrastructure reasons in one run.
MaxDbFailures == 1

\* Debug toggles counted and updates kept in the debug file, at most.
MaxToggles == 4
MaxLogged == 1

\* Python's None where the other values are strings, and where they are texts.
None == "None"
NoText == <<"None">>

\* ------------------------------------------------------------------------
\* Characters and the Python string operations the code uses
\* ------------------------------------------------------------------------

UpperChars == {"A", "B", "N", "M", "S", "U"}
LowerChars == {"a", "b", "h", "i", "x", "z", "u"}
DigitChars == {"0", "1", "2", "7", "8", "9"}
WordChars == UpperChars \cup LowerChars \cup DigitChars \cup {"_"}
SpaceChars == {" ", "\n"}

\* ord(c) for the characters that occur in prefixes; Python compares strings
\* by code point.
Ord(c) ==
    CASE c = "0" -> 48 [] c = "1" -> 49 [] c = "2" -> 50 [] c = "7" -> 55
      [] c = "8" -> 56 [] c = "9" -> 57
      [] c = "A" -> 65 [] c = "B" -> 66 [] c = "M" -> 77 [] c = "N" -> 78
      [] c = "S" -> 83 [] c = "U" -> 85 [] c = "_" -> 95
      [] c = "a" -> 97 [] c = "b" -> 98 [] c = "h" -> 104 [] c = "i" -> 105
      [] c = "u" -> 117 [] c = "x" -> 120 [] c = "z" -> 122
      [] c = " " -> 32 [] c = "\n" -> 10 [] c = "-" -> 45 [] c = "/" -> 47
      [] c = ":" -> 58 [] c = "@" -> 64
      [] OTHER -> 1000

\* str.lower() on one character.
LowerChar(c) ==
    CASE c = "A" -> "a" [] c = "B" -> "b" [] c = "M" -> "m" [] c = "N" -> "n"
      [] c = "S" -> "s" [] c = "U" -> "u" [] c = "F" -> "f" [] c = "T" -> "t"
      [] OTHER -> c

\* str.lower()
Lower(s) == [i \in 1..Len(s) |-> LowerChar(s[i])]

\* str.lstrip() / str.rstrip() / str.strip() with the default whitespace set.
RECURSIVE LStrip(_)
LStrip(s) == IF s # <<>> /\ Head(s) \in SpaceChars THEN LStrip(Tail(s)) ELSE s

RECURSIVE RStrip(_)
RStrip(s) ==
    IF s # <<>> /\ s[Len(s)] \in SpaceChars THEN RStrip(SubSeq(s, 1, Len(s) - 1)) ELSE s

Strip(s) == RStrip(LStrip(s))

\* str.lstrip('/')
RECURSIVE LStripSlash(_)
LStripSlash(s) == IF s # <<>> /\ Head(s) = "/" THEN LStripSlash(Tail(s)) ELSE s

\* str.count(c) for a one-character c.
Count(s, c) == Cardinality({i \in 1..Len(s) : s[i] = c})

\* Position of the first c in s, 0 when there is none.
Find(s, c) ==
    IF \E i \in 1..Len(s) : s[i] = c
    THEN CHOOSE i \in 1..Len(s) : s[i] = c /\ \A j \in 1..(i - 1) : s[j] # c
    ELSE 0

\* str.split(c, maxsplit)
RECURSIVE Split(_, _, _)
Split(s, c, maxsplit) ==
    IF maxsplit = 0 \/ Find(s, c) = 0
    THEN <<s>>
    ELSE <<SubSeq(s, 1, Find(s, c) - 1)>>
         \o Split(SubSeq(s, Find(s, c) + 1, Len(s)), c, maxsplit - 1)

DigitVal(c) ==
    CASE c = "0" -> 0 [] c = "1" -> 1 [] c = "2" -> 2 [] c = "7" -> 7
      [] c = "8" -> 8 [] c = "9" -> 9 [] OTHER -> 0

RECURSIVE DigitsVal(_)
DigitsVal(s) ==
    IF s = <<>> THEN 0 ELSE 10 * DigitsVal(SubSeq(s, 1, Len(s) - 1)) + DigitVal(s[Len(s)])

\* int(s): surrounding whitespace is allowed, then an optional sign and at
\* least one digit; anything else raises ValueError (ok = FALSE).
ParseInt(s) ==
    LET t == Strip(s)
        neg == t # <<>> /\ Head(t) = "-"
        d == IF t # <<>> /\ Head(t) \in {"-", "+"} THEN Tail(t) ELSE t
    IN  IF d # <<>> /\ \A i \in 1..Len(d) : d[i] \in DigitChars
        THEN [ok |-> TRUE, val |-> IF neg THEN 0 - DigitsVal(d) ELSE DigitsVal(d)]
        ELSE [ok |-> FALSE, val |-> 0]

\* str(n) for the chat ids of the model.
Str(n) ==
    CASE n = 7 -> <<"7">> [] n = 8 -> <<"8">> [] n = 9 -> <<"9">>
      [] OTHER -> <<"0">>

\* s < t in Python's string order.
StrLess(s, t) ==
    \E k \in 0..Len(s) :
        /\ k <= Len(t)
        /\ \A i \in 1..k : s[i] = t[i]
        /\ \/ (k = Len(s) /\ k < Len(t))
           \/ (k < Len(s) /\ k < Len(t) /\ Ord(s[k + 1]) < Ord(t[k + 1]))

\* sorted(S) for a set of strings.
RECURSIVE Sorted(_)
Sorted(S) ==
    IF S = {} THEN <<>>
    ELSE LET m == CHOOSE x \in S : \A y \in S \ {x} : StrLess(x, y)
         IN  <<m>> \o Sorted(S \ {m})

\* re.match(r'^/(\w+)\s*(.*)$', text): the groups of the match Python's
\* backtracking finds first (longest \w+, then longest \s*, then longest .*),
\* where . is any character but a newline and $ is the end of the text or the
\* position before a final newline.
MatchCandidates(text) ==
    {c \in (1..Len(text)) \X (0..Len(text)) \X (0..Len(text)) :
        LET w == c[1]
            sp == c[2]
            d == c[3]
            e == 1 + w + sp + d
        IN  /\ e <= Len(text)
            /\ \A i \in 2..(1 + w) : text[i] \in WordChars
            /\ \A i \in (2 + w)..(1 + w + sp) : text[i] \in SpaceChars
            /\ \A i \in (2 + w + sp)..e : text[i] # "\n"
            /\ \/ e = Len(text)
               \/ (e = Len(text) - 1 /\ text[Len(text)] = "\n")}

Prefer(c, d) ==
    \/ c[1] > d[1]
    \/ (c[1] = d[1] /\ c[2] > d[2])
    \/ (c[1] = d[1] /\ c[2] = d[2] /\ c[3] >= d[3])

ReMatch(text) ==
    LET cands == IF text = <<>> \/ Head(text) # "/" THEN {} ELSE MatchCandidates(text)
    IN  IF cands = {}
        THEN [ok |-> FALSE, g1 |-> <<>>, g2 |-> <<>>]
        ELSE LET c == CHOOSE x \in cands : \A y \in cands : Prefer(x, y)
             IN  [ok |-> TRUE,
                  g1 |-> SubSeq(text, 2, 1 + c[1]),
                  g2 |-> SubSeq(text, 2 + c[1] + c[2], 1 + c[1] + c[2] + c[3])]

\* ------------------------------------------------------------------------
\* Users, inputs and messages of the model
\* ------------------------------------------------------------------------

\* bot.py ADMIN_IDS as parsed from the environment, and one ordinary user.
ADMIN_IDS == {"admin1", "admin2"}
Users == ADMIN_IDS \cup {"user3"}

\* is_admin that lets every caller in.
is_admin_any(u) == TRUE

\* is_admin(user_id)
is_admin(u) == u \in ADMIN_IDS

\* Free-text replies the administrators send to the wizards.
AddTopicTexts ==
    { <<" ", "a", " ", ":", "N", ":", " ", "1">>,
      <<"A", ":", "M", ":", "2">>,
      <<"b", ":", "M", ":", "1">>,
      <<"a", ":", "N">>,
      <<"a", ":", "N", ":", "x">> }

PrefixTexts == { <<"a">>, <<"A">> }

EditDataTexts ==
    { <<"M", ":", "2">>, <<"M">>, <<"M", ":", "x">> }

AddSourceTexts ==
    { <<"7", " ", ":", "S">>, <<"8", ":", "S">>, <<"7">>, <<"7", ":", "S", ":", "x">> }

ChatIdTexts == { <<"7">> }

TargetTexts == { <<" ", "8">> }

\* from_user of a message: <<>> for None, or one record of the fields
\* handle_message reads.
Sender1 == <<[full_name |-> <<"U">>, username |-> <<"u">>, id |-> "5"]>>
Sender2 == <<[full_name |-> <<>>, username |-> NoText, id |-> "5"]>>

\* Messages handed to handle_message: chat id, text (NoText for a message
\* without text) and sender.
Messages ==
    { [chat_id |-> 7, text |-> <<"/", "a", " ", "h", "i">>, from_user |-> Sender1],
      [chat_id |-> 7, text |-> <<"/", "A", " ", "h", "i">>, from_user |-> Sender1],
      [chat_id |-> 7, text |-> <<"/", "z", " ", "h", "i">>, from_user |-> Sender1],
      [chat_id |-> 8, text |-> <<"/", "a", " ", "h", "i">>, from_user |-> Sender1],
      [chat_id |-> 7, text |-> NoText, from_user |-> Sender1],
      [chat_id |-> 7, text |-> <<"h", "i">>, from_user |-> Sender1],
      [chat_id |-> 7, text |-> <<"/", "a", " ", "h", "\n", "i">>, from_user |-> Sender1],
      [chat_id |-> 7, text |-> <<"/", "a", " ", "h", " ", "i", " ">>, from_user |-> Sender1],
      [chat_id |-> 7, text |-> <<"/", "b">>, from_user |-> <<>>],
      [chat_id |-> 7, text |-> <<"/", "b", " ", " ", "h", "i">>, from_user |-> Sender2] }

\* The messages that arrive while an administrator is at work.
ProbeMessages ==
    { [chat_id |-> 7, text |-> <<"/", "a", " ", "h", "i">>, from_user |-> Sender1],
      [chat_id |-> 7, text |-> <<"/", "z", " ", "h", "i">>, from_user |-> Sender1],
      [chat_id |-> 8, text |-> <<"/", "b", " ", "h", "i">>, from_user |-> Sender1] }

\* The users whose updates arrive.
Actors == {"admin1"}

\* An administrator and a user who is not one, while no messages are routed.
EntryActors == {"admin1", "user3"}

\* ------------------------------------------------------------------------
\* State
\* ------------------------------------------------------------------------

VARIABLES
    topics,              \* table topics: prefix -> [name, topic_id]; prefix is UNIQUE
    source_chats,        \* table source_chats: chat_id -> [name, is_active]
    bot_config,          \* table bot_config: key -> value
    collation,           \* collation of the database, which decides ORDER BY prefix
    TOPIC_ROUTING,       \* bot.py cache: lower-cased prefix -> topic_id
    TOPIC_NAMES,         \* bot.py cache: lower-cased prefix -> name
    SOURCE_CHATS,        \* bot.py cache: set of active chat ids
    TARGET_CHAT_ID,      \* bot.py cache
    INCLUDE_SENDER_INFO, \* bot.py cache
    SENDER_FORMAT,       \* bot.py cache
    conv,                \* ConversationHandler state of each user
    user_data,           \* context.user_data['edit_prefix'] of each user, or NoText
    pc,                  \* where the user's running handler is suspended
    op,                  \* the handler the user runs, or ran last
    inp,                 \* update.message.text of that handler
    res,                 \* outcome of its store call and reload
    sent,                \* messages sent to the user by that handler, in order
    lastRoute,           \* <<>>, or what the step just taken decided if it was a
                         \* step of handle_message: the message, the decision,
                         \* whether a reload was running and whether all it read
                         \* was of one snapshot
    before,              \* history: <<>>, or the cache when the user's running
                         \* reload began
    dbFailures,          \* store calls that have failed so far
    reloadFailed,        \* history: a load_data_from_db() was left by an exception
    DEBUG_MODE,          \* admin.py global
    debug_file,          \* the file at DEBUG_FILE_PATH: whether it exists, whether
                         \* it begins with the header line, the updates appended
    logged,              \* history: the updates logged since DEBUG_MODE was last
                         \* set to True
    toggled,             \* history: how many times toggle_debug_mode has assigned
                         \* DEBUG_MODE
    document,            \* <<>>, or the file contents send_document sent the
                         \* user in the handler the user runs, or ran last
    fetched              \* <<>>, or the rows a query of the user's running
                         \* reload has returned and the reload has not yet
                         \* assigned

store == <<topics, source_chats, bot_config, collation>>
cache == <<TOPIC_ROUTING, TOPIC_NAMES, SOURCE_CHATS, TARGET_CHAT_ID,
           INCLUDE_SENDER_INFO, SENDER_FORMAT>>
session == <<conv, user_data, pc, op, inp, res, sent>>
debug == <<DEBUG_MODE, debug_file, logged, toggled, document>>
vars == <<topics, source_chats, bot_config, collation, TOPIC_ROUTING, TOPIC_NAMES,
          SOURCE_CHATS, TARGET_CHAT_ID, INCLUDE_SENDER_INFO, SENDER_FORMAT,
          conv, user_data, pc, op, inp, res, sent, lastRoute, before, dbFailures,
          reloadFailed, DEBUG_MODE, debug_file, logged, toggled, document, fetched>>

\* The cache as one record.
Snapshot ==
    [topics |-> TOPIC_ROUTING, topic_names |-> TOPIC_NAMES,
     active_sources |-> SOURCE_CHATS, target |-> TARGET_CHAT_ID,
     include_sender_info |-> INCLUDE_SENDER_INFO, sender_format |-> SENDER_FORMAT]

END == "END"
MAIN_MENU == "MAIN_MENU"
TOPICS_MENU == "TOPICS_MENU"
SOURCE_CHATS_MENU == "SOURCE_CHATS_MENU"
WAITING_TOPIC_DATA == "WAITING_TOPIC_DATA"
WAITING_TOPIC_PREFIX == "WAITING_TOPIC_PREFIX"
WAITING_TOPIC_EDIT_PREFIX == "WAITING_TOPIC_EDIT_PREFIX"
WAITING_TOPIC_EDIT_DATA == "WAITING_TOPIC_EDIT_DATA"
WAITING_SOURCE_CHAT_DATA == "WAITING_SOURCE_CHAT_DATA"
DELETE_SOURCE_CHAT == "DELETE_SOURCE_CHAT"
SET_TARGET_CHAT == "SET_TARGET_CHAT"

WaitingStates ==
    {WAITING_TOPIC_DATA, WAITING_TOPIC_PREFIX, WAITING_TOPIC_EDIT_PREFIX,
     WAITING_TOPIC_EDIT_DATA, WAITING_SOURCE_CHAT_DATA, DELETE_SOURCE_CHAT,
     SET_TARGET_CHAT}

\* ------------------------------------------------------------------------
\* database.py: the queries
\* ------------------------------------------------------------------------

\* ORDER BY prefix ASC between two stored prefixes that differ only in letter
\* case: the "C" collation orders by code point (upper case first), a
\* linguistic collation such as en_US puts the lower-case letter first.
CollLess(coll, s, t) ==
    \E k \in 1..Len(s) :
        /\ \A i \in 1..(k - 1) : s[i] = t[i]
        /\ s[k] # t[k]
        /\ IF coll = "C" THEN Ord(s[k]) < Ord(t[k]) ELSE s[k] \in LowerChars

\* Keys of the dictionaries get_topics and get_topic_names build.
TopicKeys(tp) == {Lower(p) : p \in DOMAIN tp}

\* Database.get_topics: {row['prefix'].lower(): row['topic_id']} over the rows
\* in ORDER BY prefix ASC; of the rows with one lower-cased prefix the last wins.
get_topics(tp, coll) ==
    [k \in TopicKeys(tp) |->
        LET rows == {p \in DOMAIN tp : Lower(p) = k}
            last == CHOOSE p \in rows : \A q \in rows \ {p} : CollLess(coll, q, p)
        IN  tp[last].topic_id]

\* Database.get_topic_names: the same dictionary of names, but the SELECT has
\* no ORDER BY, so any of the rows with one lower-cased prefix may win.
get_topic_names(tp) ==
    {f \in [TopicKeys(tp) -> {tp[p].name : p \in DOMAIN tp}] :
        \A k \in TopicKeys(tp) : \E p \in DOMAIN tp : Lower(p) = k /\ f[k] = tp[p].name}

\* get_source_chats without its WHERE is_active = TRUE.
get_source_chats_all(sc) == DOMAIN sc

\* Database.get_source_chats
get_source_chats(sc) == {c \in DOMAIN sc : sc[c].is_active}

\* Database.get_all_config
get_all_config(cfg) == cfg

\* add_topic written as an upsert (INSERT ... ON CONFLICT (prefix) DO UPDATE).
add_topic_upsert(tp, prefix, name, topic_id) ==
    [ok |-> TRUE,
     topics |-> [p \in DOMAIN tp \cup {prefix} |->
                    IF p = prefix THEN [name |-> name, topic_id |-> topic_id]
                    ELSE tp[p]]]

\* Database.add_topic: INSERT; a UniqueViolationError on prefix gives False.
add_topic(tp, prefix, name, topic_id) ==
    IF prefix \in DOMAIN tp
    THEN [ok |-> FALSE, topics |-> tp]
    ELSE [ok |-> TRUE,
          topics |-> [p \in DOMAIN tp \cup {prefix} |->
                         IF p = prefix THEN [name |-> name, topic_id |-> topic_id]
                         ELSE tp[p]]]

\* Database.update_topic: UPDATE ... WHERE prefix = $n; True when one row changed.
update_topic(tp, prefix, name, topic_id) ==
    IF prefix \in DOMAIN tp
    THEN [ok |-> TRUE,
          topics |-> [tp EXCEPT ![prefix] = [name |-> name, topic_id |-> topic_id]]]
    ELSE [ok |-> FALSE, topics |-> tp]

\* Database.delete_topic: DELETE ... WHERE prefix = $1; True when one row went.
delete_topic(tp, prefix) ==
    IF prefix \in DOMAIN tp
    THEN [ok |-> TRUE, topics |-> [p \in DOMAIN tp \ {prefix} |-> tp[p]]]
    ELSE [ok |-> FALSE, topics |-> tp]

\* Database.add_source_chat: INSERT; is_active takes its default TRUE.
add_source_chat(sc, chat_id, name) ==
    IF chat_id \in DOMAIN sc
    THEN [ok |-> FALSE, source_chats |-> sc]
    ELSE [ok |-> TRUE,
          source_chats |-> [c \in DOMAIN sc \cup {chat_id} |->
                               IF c = chat_id THEN [name |-> name, is_active |-> TRUE]
                               ELSE sc[c]]]

\* The DELETE of process_delete_source_chat with its row count not looked at.
delete_source_chat_always_ok(sc, chat_id) ==
    [ok |-> TRUE, source_chats |-> [c \in DOMAIN sc \ {chat_id} |-> sc[c]]]

\* The DELETE FROM source_chats of process_delete_source_chat.
delete_source_chat(sc, chat_id) ==
    IF chat_id \in DOMAIN sc
    THEN [ok |-> TRUE, source_chats |-> [c \in DOMAIN sc \ {chat_id} |-> sc[c]]]
    ELSE [ok |-> FALSE, source_chats |-> sc]

\* set_config as INSERT ... ON CONFLICT (key) DO NOTHING.
set_config_insert_only(cfg, key, value) ==
    [k \in DOMAIN cfg \cup {key} |-> IF k \in DOMAIN cfg THEN cfg[k] ELSE value]

\* Database.set_config: INSERT ... ON CONFLICT (key) DO UPDATE.
set_config(cfg, key, value) ==
    [k \in DOMAIN cfg \cup {key} |-> IF k = key THEN value ELSE cfg[k]]

\* dict.get(key, default)
DictGet(d, key, default) == IF key \in DOMAIN d THEN d[key] ELSE default

\* ------------------------------------------------------------------------
\* bot.py: handle_message
\* ------------------------------------------------------------------------

\* The fallback texts of handle_message (lines 148, 161, 162), transliterated.
UNKNOWN_NAME == <<"Neizvestnyj">>
NO_USERNAME == <<"net username">>
UNKNOWN_ID == <<"neizvesten">>

\* The seeded sender_format '{message}\nOtpravil: {sender_name} ({sender_username})'
\* as the pieces str.format sees: replacement fields and literal text.
DEFAULT_SENDER_FORMAT ==
    <<"{message}", "\n", "Otpravil: ", "{sender_name}", " (", "{sender_username}", ")">>

\* str.format(sender_name=..., sender_username=..., sender_id=..., message=...)
RECURSIVE Format(_, _)
Format(fmt, f) ==
    IF fmt = <<>> THEN <<>>
    ELSE (CASE Head(fmt) = "{message}" -> f.message
            [] Head(fmt) = "{sender_name}" -> f.sender_name
            [] Head(fmt) = "{sender_username}" -> f.sender_username
            [] Head(fmt) = "{sender_id}" -> f.sender_id
            [] OTHER -> <<Head(fmt)>>)
         \o Format(Tail(fmt), f)

\* Lines 147-155: what handle_message takes from message.from_user.
SenderFields(m) ==
    IF m.from_user = <<>>
    THEN [sender_name |-> UNKNOWN_NAME, sender_username |-> NoText, sender_id |-> <<>>]
    ELSE [sender_name |-> IF m.from_user[1].full_name # <<>> THEN m.from_user[1].full_name
                          ELSE UNKNOWN_NAME,
          sender_username |-> IF m.from_user[1].username # NoText
                              THEN <<"@">> \o m.from_user[1].username ELSE NoText,
          sender_id |-> <<m.from_user[1].id>>]

\* The forwarded text when the INCLUDE_SENDER_INFO test is left out.
ForwardedText_always_format(snap, m, content) ==
    LET f == SenderFields(m)
    IN  Format(snap.sender_format,
               [sender_name |-> f.sender_name,
                sender_username |-> IF f.sender_username # NoText
                                    THEN f.sender_username ELSE NO_USERNAME,
                sender_id |-> IF f.sender_id # <<>> THEN f.sender_id ELSE UNKNOWN_ID,
                message |-> content])

\* Lines 157-166: the text that is forwarded.
ForwardedText(snap, m, content) ==
    LET f == SenderFields(m)
    IN  IF snap.include_sender_info
        THEN Format(snap.sender_format,
                    [sender_name |-> f.sender_name,
                     sender_username |-> IF f.sender_username # NoText
                                         THEN f.sender_username ELSE NO_USERNAME,
                     sender_id |-> IF f.sender_id # <<>> THEN f.sender_id ELSE UNKNOWN_ID,
                     message |-> content])
        ELSE content

\* sorted(..., reverse=True)
key_order_reversed(S) ==
    [i \in 1..Cardinality(S) |-> Sorted(S)[Cardinality(S) + 1 - i]]

\* Lines 125 and 131: sorted(TOPIC_ROUTING.keys()), the order of the listing.
key_order(S) == Sorted(S)

\* Lines 121-132: the reply to an unknown prefix.  With names the reply has one
\* line "/p -> name" per prefix, without names one line with the prefixes.

RejectText(snap) ==
    LET keys == key_order(DOMAIN snap.topics)
    IN  IF DOMAIN snap.topic_names # {}
        THEN [named |-> TRUE,
              listing |-> [i \in 1..Len(keys) |->
                              <<keys[i], DictGet(snap.topic_names, keys[i], keys[i])>>]]
        ELSE [named |-> FALSE, listing |-> keys]

\* The test of line 100 left out: every chat passes.
source_check_any(snap, m) == TRUE

\* source_check: line 100, is the chat one of the source chats.
source_check(snap, m) == Str(m.chat_id) \in snap.active_sources

\* handle_message up to its send_message: the decision for message m when the
\* cache holds snap.  Ignore: nothing is sent.  Reject: the list of prefixes
\* is sent back to the chat.  Forward: text goes to the target chat's topic.
Decide(snap, m) ==
    IF m.text = NoText \/ m.text = <<>> THEN [kind |-> "Ignore"]
    ELSE IF ~source_check(snap, m) THEN [kind |-> "Ignore"]
    ELSE IF Head(m.text) # "/" THEN [kind |-> "Ignore"]
    ELSE LET match == ReMatch(m.text)
             prefix == Lower(match.g1)
             content == Strip(match.g2)
         IN  IF ~match.ok THEN [kind |-> "Ignore"]
             ELSE IF prefix \notin DOMAIN snap.topics
             THEN [kind |-> "Reject", chat_id |-> m.chat_id, text |-> RejectText(snap)]
             ELSE [kind |-> "Forward",
                   chat_id |-> snap.target,
                   message_thread_id |-> snap.topics[prefix],
                   text |-> ForwardedText(snap, m, content)]

\* The groups of cache fields a decision has read.
GroupsRead(d) ==
    CASE d.kind = "Reject" -> {"sources", "routing", "names"}
      [] d.kind = "Forward" -> {"sources", "routing", "config"}
      [] OTHER -> {"sources"}

\* Group g of the cache holds what snapshot old held.
SameAsIn(old, g) ==
    CASE g = "routing" -> TOPIC_ROUTING = old.topics
      [] g = "names" -> TOPIC_NAMES = old.topic_names
      [] g = "sources" -> SOURCE_CHATS = old.active_sources
      [] OTHER -> /\ TARGET_CHAT_ID = old.target
                  /\ INCLUDE_SENDER_INFO = old.include_sender_info
                  /\ SENDER_FORMAT = old.sender_format

\* Group g of the cache holds what a reload of the store as it is now publishes.
SameAsStore(g) ==
    CASE g = "routing" -> TOPIC_ROUTING = get_topics(topics, collation)
      [] g = "names" -> TOPIC_NAMES \in get_topic_names(topics)
      [] g = "sources" -> SOURCE_CHATS = get_source_chats(source_chats)
      [] OTHER -> /\ TARGET_CHAT_ID = DictGet(bot_config, "target_chat_id", NoText)
                  /\ INCLUDE_SENDER_INFO =
                         (Lower(DictGet(bot_config, "include_sender_info",
                                        <<"t", "r", "u", "e">>)) = <<"t", "r", "u", "e">>)
                  /\ SENDER_FORMAT = DictGet(bot_config, "sender_format", SENDER_FORMAT)

\* The users whose load_data_from_db() has begun and not ended.
Reloading == {u \in Users : before[u] # <<>>}

\* What a decision read is all of the snapshot from before the running reload,
\* or all of the snapshot that reload publishes.
ReadOneSnapshot(d) ==
    \A u \in Reloading :
        \/ \A g \in GroupsRead(d) : SameAsIn(before[u][1], g)
        \/ \A g \in GroupsRead(d) : SameAsStore(g)

\* DEBUG_FILE_PATH does not exist.
NoFile == [exists |-> FALSE, header |-> FALSE, updates |-> <<>>]

\* open(DEBUG_FILE_PATH, "w") and the header line written to it.
NewFile == [exists |-> TRUE, header |-> TRUE, updates |-> <<>>]

\* log_update_to_file: nothing unless DEBUG_MODE; else the update is appended
\* to the file, which open(DEBUG_FILE_PATH, "a") creates if it is not there.
log_update_to_file(m) ==
    IF DEBUG_MODE
    THEN /\ debug_file' = [exists |-> TRUE,
                           header |-> debug_file.header,
                           updates |-> Append(debug_file.updates, m)]
         /\ logged' = Append(logged, m)
    ELSE UNCHANGED <<debug_file, logged>>

\* handle_message with TOPIC_ROUTING.setdefault(prefix, DEFAULT_TOPIC_ID) as
\* its lookup: an unknown prefix is entered into the cache.
handle_message_setdefault(m) ==
    /\ LET d == Decide(Snapshot, m)
       IN  /\ lastRoute' = <<[msg |-> m,
                              dec |-> d,
                              reloading |-> Reloading # {},
                              oneSnapshot |-> ReadOneSnapshot(d)]>>
           /\ TOPIC_ROUTING' =
                  IF d.kind = "Reject"
                  THEN [k \in DOMAIN TOPIC_ROUTING \cup {Lower(ReMatch(m.text).g1)} |->
                           IF k \in DOMAIN TOPIC_ROUTING THEN TOPIC_ROUTING[k] ELSE 0]
                  ELSE TOPIC_ROUTING
    /\ DEBUG_MODE => Len(logged) < MaxLogged
    /\ log_update_to_file(m)
    /\ UNCHANGED <<store, TOPIC_NAMES, SOURCE_CHATS, TARGET_CHAT_ID, INCLUDE_SENDER_INFO,
                   SENDER_FORMAT, session, before, dbFailures, reloadFailed,
                   DEBUG_MODE, toggled, document, fetched>>

\* handle_message up to its decision: the update is logged (line 92), then
\* the cache is read.
handle_message(m) ==
    /\ DEBUG_MODE => Len(logged) < MaxLogged
    /\ log_update_to_file(m)
    /\ LET d == Decide(Snapshot, m)
       IN  lastRoute' = <<[msg |-> m,
                           dec |-> d,
                           reloading |-> Reloading # {},
                           oneSnapshot |-> ReadOneSnapshot(d)]>>
    /\ UNCHANGED <<store, cache, session, before, dbFailures, reloadFailed,
                   DEBUG_MODE, toggled, document, fetched>>

\* handle_message returns, after its send_message if it had one.
handle_message_return ==
    /\ lastRoute # <<>>
    /\ lastRoute' = <<>>
    /\ UNCHANGED fetched
    /\ UNCHANGED debug
    /\ UNCHANGED <<store, cache, session, before, dbFailures, reloadFailed>>

\* ------------------------------------------------------------------------
\* bot.py: load_data_from_db, one step per awaited query
\* ------------------------------------------------------------------------

\* Handlers that wrap their store call and reload in try/except Exception.
TryOps == {"process_add_topic", "process_edit_topic_data",
           "process_add_source_chat", "process_set_target_chat"}

\* A store call raises (the store is unavailable).
DbRaises ==
    /\ dbFailures < MaxDbFailures
    /\ dbFailures' = dbFailures + 1

\* The exception leaves load_data_from_db: a handler with try/except goes on
\* to its except branch, any other handler is abandoned where it is.
ReloadRaises(u) ==
    /\ DbRaises
    /\ reloadFailed' = TRUE
    /\ res' = [res EXCEPT ![u] = "reload_exc"]
    /\ pc' = [pc EXCEPT ![u] = IF op[u] \in TryOps THEN "finish" ELSE "idle"]
    /\ inp' = [inp EXCEPT ![u] = IF op[u] \in TryOps THEN inp[u] ELSE NoText]
    /\ before' = [before EXCEPT ![u] = <<>>]
    /\ lastRoute' = <<>>
    /\ UNCHANGED fetched
    /\ UNCHANGED debug
    /\ UNCHANGED <<store, cache, conv, user_data, op, sent>>

\* TOPIC_ROUTING = await db.get_topics()
load_topics(u) ==
    /\ pc[u] = "r1"
    /\ \/ /\ TOPIC_ROUTING' = get_topics(topics, collation)
          /\ pc' = [pc EXCEPT ![u] = "r2"]
          /\ lastRoute' = <<>>
          /\ UNCHANGED fetched
          /\ UNCHANGED debug
          /\ UNCHANGED <<store, TOPIC_NAMES, SOURCE_CHATS, TARGET_CHAT_ID,
                         INCLUDE_SENDER_INFO, SENDER_FORMAT, conv, user_data, op, inp,
                         res, sent, before, dbFailures, reloadFailed>>
       \/ ReloadRaises(u)

\* TOPIC_NAMES = await db.get_topic_names()
load_topic_names(u) ==
    /\ pc[u] = "r2"
    /\ \/ /\ TOPIC_NAMES' \in get_topic_names(topics)
          /\ pc' = [pc EXCEPT ![u] = "r3"]
          /\ lastRoute' = <<>>
          /\ UNCHANGED fetched
          /\ UNCHANGED debug
          /\ UNCHANGED <<store, TOPIC_ROUTING, SOURCE_CHATS, TARGET_CHAT_ID,
                         INCLUDE_SENDER_INFO, SENDER_FORMAT, conv, user_data, op, inp,
                         res, sent, before, dbFailures, reloadFailed>>
       \/ ReloadRaises(u)

\* SOURCE_CHATS = await db.get_source_chats()
load_source_chats(u) ==
    /\ pc[u] = "r3"
    /\ \/ /\ SOURCE_CHATS' = get_source_chats(source_chats)
          /\ pc' = [pc EXCEPT ![u] = "r4"]
          /\ lastRoute' = <<>>
          /\ UNCHANGED fetched
          /\ UNCHANGED debug
          /\ UNCHANGED <<store, TOPIC_ROUTING, TOPIC_NAMES, TARGET_CHAT_ID,
                         INCLUDE_SENDER_INFO, SENDER_FORMAT, conv, user_data, op, inp,
                         res, sent, before, dbFailures, reloadFailed>>
       \/ ReloadRaises(u)

\* The two halves of 'TOPIC_ROUTING = await db.get_topics()': the query is
\* answered by the store, and the coroutine, resumed later, assigns the rows
\* it got. Other coroutines run in between.
query_topics(u) ==
    /\ pc[u] = "r1"
    /\ \/ /\ fetched' = [fetched EXCEPT ![u] = <<get_topics(topics, collation)>>]
          /\ pc' = [pc EXCEPT ![u] = "r1_got"]
          /\ lastRoute' = <<>>
          /\ UNCHANGED debug
          /\ UNCHANGED <<store, cache, conv, user_data, op, inp, res, sent, before,
                         dbFailures, reloadFailed>>
       \/ ReloadRaises(u)

assign_topics(u) ==
    /\ pc[u] = "r1_got"
    /\ TOPIC_ROUTING' = fetched[u][1]
    /\ fetched' = [fetched EXCEPT ![u] = <<>>]
    /\ pc' = [pc EXCEPT ![u] = "r2"]
    /\ lastRoute' = <<>>
    /\ UNCHANGED debug
    /\ UNCHANGED <<store, TOPIC_NAMES, SOURCE_CHATS, TARGET_CHAT_ID,
                   INCLUDE_SENDER_INFO, SENDER_FORMAT, conv, user_data, op, inp,
                   res, sent, before, dbFailures, reloadFailed>>

\* The two halves of 'TOPIC_NAMES = await db.get_topic_names()'.
query_topic_names(u) ==
    /\ pc[u] = "r2"
    /\ \/ /\ \E names \in get_topic_names(topics) :
                 fetched' = [fetched EXCEPT ![u] = <<names>>]
          /\ pc' = [pc EXCEPT ![u] = "r2_got"]
          /\ lastRoute' = <<>>
          /\ UNCHANGED debug
          /\ UNCHANGED <<store, cache, conv, user_data, op, inp, res, sent, before,
                         dbFailures, reloadFailed>>
       \/ ReloadRaises(u)

assign_topic_names(u) ==
    /\ pc[u] = "r2_got"
    /\ TOPIC_NAMES' = fetched[u][1]
    /\ fetched' = [fetched EXCEPT ![u] = <<>>]
    /\ pc' = [pc EXCEPT ![u] = "r3"]
    /\ lastRoute' = <<>>
    /\ UNCHANGED debug
    /\ UNCHANGED <<store, TOPIC_ROUTING, SOURCE_CHATS, TARGET_CHAT_ID,
                   INCLUDE_SENDER_INFO, SENDER_FORMAT, conv, user_data, op, inp,
                   res, sent, before, dbFailures, reloadFailed>>

TRUE_TEXT == <<"t", "r", "u", "e">>

\* config = await db.get_all_config() and the three assignments from it.
load_config(u) ==
    /\ pc[u] = "r4"
    /\ \/ /\ TARGET_CHAT_ID' = DictGet(get_all_config(bot_config), "target_chat_id", NoText)
          /\ INCLUDE_SENDER_INFO' =
                 (Lower(DictGet(get_all_config(bot_config), "include_sender_info", TRUE_TEXT))
                  = TRUE_TEXT)
          /\ SENDER_FORMAT' =
                 DictGet(get_all_config(bot_config), "sender_format", SENDER_FORMAT)
          /\ pc' = [pc EXCEPT ![u] = "finish"]
          /\ before' = [before EXCEPT ![u] = <<>>]
          /\ lastRoute' = <<>>
          /\ UNCHANGED fetched
          /\ UNCHANGED debug
          /\ UNCHANGED <<store, TOPIC_ROUTING, TOPIC_NAMES, SOURCE_CHATS, conv,
                         user_data, op, inp, res, sent, dbFailures, reloadFailed>>
       \/ ReloadRaises(u)

\* ------------------------------------------------------------------------
\* admin.py: handlers that finish in one step
\* ------------------------------------------------------------------------

Idle(u) == pc[u] = "idle"

\* A handler starts: what the previous handler of this user left is dropped.
Begin(u, name, text) ==
    /\ op' = [op EXCEPT ![u] = name]
    /\ inp' = [inp EXCEPT ![u] = text]
    /\ before' = [before EXCEPT ![u] = <<>>]

\* A handler that runs to its return without touching store or cache: it
\* sends msgs and returns the conversation state next.
Returns(u, name, next, msgs) ==
    /\ Begin(u, name, NoText)
    /\ res' = [res EXCEPT ![u] = None]
    /\ sent' = [sent EXCEPT ![u] = msgs]
    /\ conv' = [conv EXCEPT ![u] = next]
    /\ lastRoute' = <<>>
    /\ UNCHANGED fetched
    /\ UNCHANGED debug
    /\ UNCHANGED <<store, cache, user_data, pc, dbFailures, reloadFailed>>

\* A waiting state's handler refuses text before any store call: it sends msg
\* and returns the state it was in.
Rejects(u, name, text, msg) ==
    /\ Begin(u, name, text)
    /\ res' = [res EXCEPT ![u] = None]
    /\ sent' = [sent EXCEPT ![u] = <<msg>>]
    /\ lastRoute' = <<>>
    /\ UNCHANGED fetched
    /\ UNCHANGED debug
    /\ UNCHANGED <<store, cache, conv, user_data, pc, dbFailures, reloadFailed>>

\* A handler whose first store call raises and that has no try/except: the
\* exception leaves the handler, the conversation state stays what it was and
\* nothing is sent.
Raises(u, name) ==
    /\ DbRaises
    /\ UNCHANGED reloadFailed
    /\ Begin(u, name, NoText)
    /\ res' = [res EXCEPT ![u] = "db_exc"]
    /\ sent' = [sent EXCEPT ![u] = <<>>]
    /\ lastRoute' = <<>>
    /\ UNCHANGED fetched
    /\ UNCHANGED debug
    /\ UNCHANGED <<store, cache, conv, user_data, pc>>

\* /start that takes the conversation up where a pending prefix was left.
start_command_resume(u) ==
    /\ Idle(u) /\ conv[u] = END
    /\ IF is_admin(u)
       THEN IF user_data[u] # NoText
            THEN Returns(u, "start_command", WAITING_TOPIC_EDIT_DATA, <<"prompt">>)
            ELSE Returns(u, "start_command", MAIN_MENU, <<"main_menu">>)
       ELSE Returns(u, "start_command", END, <<"greeting">>)

\* /start: entry point of the conversation and greeting for everybody else.
start_command(u) ==
    /\ Idle(u) /\ conv[u] = END
    /\ IF is_admin(u)
       THEN Returns(u, "start_command", MAIN_MENU, <<"main_menu">>)
       ELSE Returns(u, "start_command", END, <<"greeting">>)

admin_command(u) ==
    /\ Idle(u) /\ conv[u] = END
    /\ IF ~is_admin(u)
       THEN Returns(u, "admin_command", END, <<"no_access">>)
       ELSE Returns(u, "admin_command", MAIN_MENU, <<"main_menu">>)

show_topics_menu(u) ==
    /\ Idle(u) /\ conv[u] = MAIN_MENU
    /\ \/ Returns(u, "show_topics_menu", TOPICS_MENU, <<"topics_menu">>)
       \/ Raises(u, "show_topics_menu")

show_source_chats_menu(u) ==
    /\ Idle(u) /\ conv[u] = MAIN_MENU
    /\ \/ Returns(u, "show_source_chats_menu", SOURCE_CHATS_MENU, <<"source_chats_menu">>)
       \/ Raises(u, "show_source_chats_menu")

\* show_stats that records in bot_config that the statistics were shown.
show_stats_recording(u) ==
    /\ Idle(u) /\ conv[u] = MAIN_MENU
    /\ Begin(u, "show_stats", NoText)
    /\ res' = [res EXCEPT ![u] = None]
    /\ sent' = [sent EXCEPT ![u] = <<"stats">>]
    /\ conv' = [conv EXCEPT ![u] = MAIN_MENU]
    /\ bot_config' = set_config(bot_config, "stats_shown", <<"1">>)
    /\ lastRoute' = <<>>
    /\ UNCHANGED fetched
    /\ UNCHANGED debug
    /\ UNCHANGED <<topics, source_chats, collation, cache, user_data, pc,
                   dbFailures, reloadFailed>>

show_stats(u) ==
    /\ Idle(u) /\ conv[u] = MAIN_MENU
    /\ \/ Returns(u, "show_stats", MAIN_MENU, <<"stats">>)
       \/ Raises(u, "show_stats")

start_add_topic(u) ==
    /\ Idle(u) /\ conv[u] = TOPICS_MENU
    /\ Returns(u, "start_add_topic", WAITING_TOPIC_DATA, <<"prompt">>)

start_delete_topic(u) ==
    /\ Idle(u) /\ conv[u] = TOPICS_MENU
    /\ \/ IF DOMAIN get_topics(topics, collation) = {}
          THEN Returns(u, "start_delete_topic", END, <<"no_topics">>)
          ELSE Returns(u, "start_delete_topic", WAITING_TOPIC_PREFIX, <<"prompt">>)
       \/ Raises(u, "start_delete_topic")

start_edit_topic(u) ==
    /\ Idle(u) /\ conv[u] = TOPICS_MENU
    /\ \/ IF DOMAIN get_topics(topics, collation) = {}
          THEN Returns(u, "start_edit_topic", END, <<"no_topics">>)
          ELSE Returns(u, "start_edit_topic", WAITING_TOPIC_EDIT_PREFIX, <<"prompt">>)
       \/ Raises(u, "start_edit_topic")

start_add_source_chat(u) ==
    /\ Idle(u) /\ conv[u] = SOURCE_CHATS_MENU
    /\ Returns(u, "start_add_source_chat", WAITING_SOURCE_CHAT_DATA, <<"prompt">>)

\* start_delete_source_chat that lists the active chats only.
start_delete_source_chat_active(u) ==
    /\ Idle(u) /\ conv[u] = SOURCE_CHATS_MENU
    /\ \/ IF get_source_chats(source_chats) = {}
          THEN Returns(u, "start_delete_source_chat", END, <<"no_chats">>)
          ELSE Returns(u, "start_delete_source_chat", DELETE_SOURCE_CHAT, <<"prompt">>)
       \/ Raises(u, "start_delete_source_chat")

start_delete_source_chat(u) ==
    /\ Idle(u) /\ conv[u] = SOURCE_CHATS_MENU
    /\ \/ IF DOMAIN source_chats = {}
          THEN Returns(u, "start_delete_source_chat", END, <<"no_chats">>)
          ELSE Returns(u, "start_delete_source_chat", DELETE_SOURCE_CHAT, <<"prompt">>)
       \/ Raises(u, "start_delete_source_chat")

start_set_target_chat(u) ==
    /\ Idle(u) /\ conv[u] = MAIN_MENU
    /\ \/ Returns(u, "start_set_target_chat", SET_TARGET_CHAT, <<"prompt">>)
       \/ Raises(u, "start_set_target_chat")

back_to_main(u) ==
    /\ Idle(u) /\ conv[u] \in {MAIN_MENU, TOPICS_MENU, SOURCE_CHATS_MENU}
    /\ Returns(u, "back_to_main", MAIN_MENU, <<"main_menu">>)

close_menu(u) ==
    /\ Idle(u) /\ conv[u] = MAIN_MENU
    /\ Returns(u, "close_menu", END, <<"closed">>)

\* /cancel that leads back to the main menu.
cancel_to_menu(u) ==
    /\ Idle(u) /\ conv[u] # END
    /\ Returns(u, "cancel", MAIN_MENU, <<"cancelled">>)

\* /cancel: a handler of every waiting state and a fallback of the others.
cancel(u) ==
    /\ Idle(u) /\ conv[u] # END
    /\ Returns(u, "cancel", END, <<"cancelled">>)

\* handle_unknown_command that returns the state the conversation is in.
handle_unknown_command_stay(u) ==
    /\ Idle(u) /\ conv[u] # END
    /\ IF ~is_admin(u)
       THEN Returns(u, "handle_unknown_command", END, <<>>)
       ELSE Returns(u, "handle_unknown_command", conv[u], <<"main_menu">>)

\* Any other command while a conversation is open (fallbacks).
handle_unknown_command(u) ==
    /\ Idle(u) /\ conv[u] # END
    /\ IF ~is_admin(u)
       THEN Returns(u, "handle_unknown_command", END, <<>>)
       ELSE Returns(u, "handle_unknown_command", MAIN_MENU, <<"main_menu">>)

MenuStates == {MAIN_MENU, TOPICS_MENU, SOURCE_CHATS_MENU}

\* A text that is no command, or a button no handler of the state is
\* registered for (toggle_source_chat in SOURCE_CHATS_MENU), while the
\* conversation is in a menu state: the state's handlers are all
\* CallbackQueryHandlers with other patterns and the fallbacks take commands
\* only, so no handler runs.
no_handler(u) ==
    /\ Idle(u) /\ conv[u] \in MenuStates
    /\ Begin(u, "no_handler", NoText)
    /\ res' = [res EXCEPT ![u] = None]
    /\ sent' = [sent EXCEPT ![u] = <<>>]
    /\ lastRoute' = <<>>
    /\ UNCHANGED fetched
    /\ UNCHANGED debug
    /\ UNCHANGED <<store, cache, conv, user_data, pc, dbFailures, reloadFailed>>

\* The edit wizard takes every text as the prefix to edit.
prefix_known_any(tp, coll, prefix) == TRUE

\* Line 501: prefix in topics, the dictionary get_topics() returned.
prefix_known(tp, coll, prefix) == prefix \in DOMAIN get_topics(tp, coll)

\* process_edit_topic_prefix: the prefix must be a key of get_topics().
\* process_edit_topic_prefix that keeps the chosen prefix in one place for
\* all users (bot_data) instead of the user's own user_data.
process_edit_topic_prefix_shared(u, text) ==
    /\ Idle(u) /\ conv[u] = WAITING_TOPIC_EDIT_PREFIX
    /\ LET prefix == LStripSlash(Strip(text))
       IN  \/ /\ ~prefix_known(topics, collation, prefix)
              /\ Rejects(u, "process_edit_topic_prefix", text, "not_found_retry")
           \/ /\ prefix_known(topics, collation, prefix)
              /\ Begin(u, "process_edit_topic_prefix", text)
              /\ res' = [res EXCEPT ![u] = None]
              /\ sent' = [sent EXCEPT ![u] = <<"prompt">>]
              /\ conv' = [conv EXCEPT ![u] = WAITING_TOPIC_EDIT_DATA]
              /\ user_data' = [v \in Users |-> prefix]
              /\ lastRoute' = <<>>
              /\ UNCHANGED fetched
              /\ UNCHANGED debug
              /\ UNCHANGED <<store, cache, pc, dbFailures, reloadFailed>>
           \/ Raises(u, "process_edit_topic_prefix")

process_edit_topic_prefix(u, text) ==
    /\ Idle(u) /\ conv[u] = WAITING_TOPIC_EDIT_PREFIX
    /\ LET prefix == LStripSlash(Strip(text))
       IN  \/ /\ ~prefix_known(topics, collation, prefix)
              /\ Rejects(u, "process_edit_topic_prefix", text, "not_found_retry")
           \/ /\ prefix_known(topics, collation, prefix)
              /\ Begin(u, "process_edit_topic_prefix", text)
              /\ res' = [res EXCEPT ![u] = None]
              /\ sent' = [sent EXCEPT ![u] = <<"prompt">>]
              /\ conv' = [conv EXCEPT ![u] = WAITING_TOPIC_EDIT_DATA]
              /\ user_data' = [user_data EXCEPT ![u] = prefix]
              /\ lastRoute' = <<>>
              /\ UNCHANGED fetched
              /\ UNCHANGED debug
              /\ UNCHANGED <<store, cache, pc, dbFailures, reloadFailed>>
           \/ Raises(u, "process_edit_topic_prefix")

\* ------------------------------------------------------------------------
\* admin.py: the wizard steps that call the store and reload the cache
\* ------------------------------------------------------------------------

\* The store call of handler name returned ok (True) or not (False): after
\* True the handler goes on to bot.load_data_from_db().
Called(u, name, text, ok) ==
    /\ op' = [op EXCEPT ![u] = name]
    /\ inp' = [inp EXCEPT ![u] = text]
    /\ res' = [res EXCEPT ![u] = IF ok THEN "ok" ELSE "no"]
    /\ pc' = [pc EXCEPT ![u] = IF ok THEN "r1" ELSE "finish"]
    /\ before' = [before EXCEPT ![u] = IF ok THEN <<Snapshot>> ELSE <<>>]
    /\ sent' = [sent EXCEPT ![u] = <<>>]
    /\ lastRoute' = <<>>
    /\ UNCHANGED fetched
    /\ UNCHANGED debug
    /\ UNCHANGED <<cache, conv, user_data, dbFailures, reloadFailed>>

\* The store call of handler name raised.
CallRaises(u, name, text) ==
    /\ DbRaises
    /\ UNCHANGED reloadFailed
    /\ op' = [op EXCEPT ![u] = name]
    /\ inp' = [inp EXCEPT ![u] = IF name \in TryOps THEN text ELSE NoText]
    /\ res' = [res EXCEPT ![u] = "db_exc"]
    /\ pc' = [pc EXCEPT ![u] = IF name \in TryOps THEN "finish" ELSE "idle"]
    /\ before' = [before EXCEPT ![u] = <<>>]
    /\ sent' = [sent EXCEPT ![u] = <<>>]
    /\ lastRoute' = <<>>
    /\ UNCHANGED fetched
    /\ UNCHANGED debug
    /\ UNCHANGED <<store, cache, conv, user_data>>

\* process_add_topic that looks the prefix up in TOPIC_ROUTING and, when it is
\* not there, writes the row whatever the table holds.
process_add_topic_prechecked(u, text) ==
    /\ Idle(u) /\ conv[u] = WAITING_TOPIC_DATA
    /\ LET t == Strip(text)
           parts == Split(t, ":", 2)
       IN  IF Count(t, ":") # 2
           THEN Rejects(u, "process_add_topic", text, "invalid_format")
           ELSE IF ~ParseInt(parts[3]).ok
           THEN Rejects(u, "process_add_topic", text, "not_a_number")
           ELSE \/ LET known == Lower(Strip(parts[1])) \in DOMAIN TOPIC_ROUTING
                       r == add_topic_upsert(topics, Strip(parts[1]), Strip(parts[2]),
                                             ParseInt(parts[3]).val)
                   IN  /\ topics' = IF known THEN topics ELSE r.topics
                       /\ Called(u, "process_add_topic", text, ~known)
                       /\ UNCHANGED <<source_chats, bot_config, collation>>
                \/ CallRaises(u, "process_add_topic", text)

process_add_topic(u, text) ==
    /\ Idle(u) /\ conv[u] = WAITING_TOPIC_DATA
    /\ LET t == Strip(text)
           parts == Split(t, ":", 2)
       IN  IF Count(t, ":") # 2
           THEN Rejects(u, "process_add_topic", text, "invalid_format")
           ELSE IF ~ParseInt(parts[3]).ok
           THEN Rejects(u, "process_add_topic", text, "not_a_number")
           ELSE \/ LET r == add_topic(topics, Strip(parts[1]), Strip(parts[2]),
                                      ParseInt(parts[3]).val)
                   IN  /\ topics' = r.topics
                       /\ Called(u, "process_add_topic", text, r.ok)
                       /\ UNCHANGED <<source_chats, bot_config, collation>>
                \/ CallRaises(u, "process_add_topic", text)

process_delete_topic(u, text) ==
    /\ Idle(u) /\ conv[u] = WAITING_TOPIC_PREFIX
    /\ \/ LET r == delete_topic(topics, LStripSlash(Strip(text)))
          IN  /\ topics' = r.topics
              /\ Called(u, "process_delete_topic", text, r.ok)
              /\ UNCHANGED <<source_chats, bot_config, collation>>
       \/ CallRaises(u, "process_delete_topic", text)

process_edit_topic_data(u, text) ==
    /\ Idle(u) /\ conv[u] = WAITING_TOPIC_EDIT_DATA
    /\ LET t == Strip(text)
           parts == Split(t, ":", 1)
       IN  IF user_data[u] = NoText
           THEN Returns(u, "process_edit_topic_data", END, <<"no_prefix">>)
           ELSE IF Count(t, ":") = 0
           THEN Rejects(u, "process_edit_topic_data", text, "invalid_format")
           ELSE IF ~ParseInt(parts[2]).ok
           THEN Rejects(u, "process_edit_topic_data", text, "not_a_number")
           ELSE \/ LET r == update_topic(topics, user_data[u], Strip(parts[1]),
                                         ParseInt(parts[2]).val)
                   IN  /\ topics' = r.topics
                       /\ Called(u, "process_edit_topic_data", text, r.ok)
                       /\ UNCHANGED <<source_chats, bot_config, collation>>
                \/ CallRaises(u, "process_edit_topic_data", text)

process_add_source_chat(u, text) ==
    /\ Idle(u) /\ conv[u] = WAITING_SOURCE_CHAT_DATA
    /\ LET t == Strip(text)
           parts == Split(t, ":", 1)
       IN  IF Count(t, ":") = 0
           THEN Rejects(u, "process_add_source_chat", text, "invalid_format")
           ELSE \/ LET r == add_source_chat(source_chats, Strip(parts[1]), Strip(parts[2]))
                   IN  /\ source_chats' = r.source_chats
                       /\ Called(u, "process_add_source_chat", text, r.ok)
                       /\ UNCHANGED <<topics, bot_config, collation>>
                \/ CallRaises(u, "process_add_source_chat", text)

process_delete_source_chat(u, text) ==
    /\ Idle(u) /\ conv[u] = DELETE_SOURCE_CHAT
    /\ \/ LET r == delete_source_chat(source_chats, Strip(text))
          IN  /\ source_chats' = r.source_chats
              /\ Called(u, "process_delete_source_chat", text, r.ok)
              /\ UNCHANGED <<topics, bot_config, collation>>
       \/ CallRaises(u, "process_delete_source_chat", text)

process_set_target_chat(u, text) ==
    /\ Idle(u) /\ conv[u] = SET_TARGET_CHAT
    /\ \/ /\ bot_config' = set_config(bot_config, "target_chat_id", Strip(text))
          /\ Called(u, "process_set_target_chat", text, TRUE)
          /\ UNCHANGED <<topics, source_chats, collation>>
       \/ CallRaises(u, "process_set_target_chat", text)

TopicOps == {"process_add_topic", "process_delete_topic", "process_edit_topic_data"}
SourceOps == {"process_add_source_chat", "process_delete_source_chat"}
AddOps == {"process_add_topic", "process_add_source_chat"}

\* The message a wizard step sends about its outcome.
OutcomeMessage(name, r) ==
    CASE r = "ok" -> "success"
      [] r = "no" -> IF name \in AddOps THEN "conflict" ELSE "not_found"
      [] OTHER -> "error"

\* The menu a wizard step returns to: show_topics_menu_after_action,
\* show_source_chats_menu_after_action or show_main_menu_after_action.
OwningMenu(name) ==
    CASE name \in TopicOps -> TOPICS_MENU
      [] name \in SourceOps -> SOURCE_CHATS_MENU
      [] OTHER -> MAIN_MENU

MenuMessage(name) ==
    CASE name \in TopicOps -> "topics_menu"
      [] name \in SourceOps -> "source_chats_menu"
      [] OTHER -> "main_menu"

\* The rest of a wizard step after the store call and the reload: the outcome
\* message, then the menu.  The two menus that list rows query the store
\* first; when that query raises, the handler is left after the outcome
\* message and the conversation state stays the waiting state.
finish(u) ==
    /\ pc[u] = "finish"
    /\ pc' = [pc EXCEPT ![u] = "idle"]
    /\ inp' = [inp EXCEPT ![u] = NoText]
    /\ user_data' = [user_data EXCEPT ![u] =
                        IF op[u] = "process_edit_topic_data" THEN NoText ELSE user_data[u]]
    /\ \/ /\ sent' = [sent EXCEPT ![u] = <<OutcomeMessage(op[u], res[u]), MenuMessage(op[u])>>]
          /\ conv' = [conv EXCEPT ![u] = OwningMenu(op[u])]
          /\ UNCHANGED <<dbFailures, reloadFailed>>
       \/ /\ op[u] \in TopicOps \cup SourceOps
          /\ DbRaises
          /\ UNCHANGED reloadFailed
          /\ sent' = [sent EXCEPT ![u] = <<OutcomeMessage(op[u], res[u])>>]
          /\ UNCHANGED conv
    /\ lastRoute' = <<>>
    /\ UNCHANGED fetched
    /\ UNCHANGED debug
    /\ UNCHANGED <<store, cache, op, res, before>>

\* ------------------------------------------------------------------------
\* admin.py: toggle_debug_mode, one step per stretch between awaits
\* ------------------------------------------------------------------------

\* A toggle that only ever switches debugging on.
NewMode_on(mode) == TRUE

\* if DEBUG_MODE: DEBUG_MODE = False ... else: DEBUG_MODE = True
NewMode(mode) == ~mode

\* The button toggle_debug in MAIN_MENU: await query.answer().
toggle_debug_mode(u) ==
    /\ Idle(u) /\ conv[u] = MAIN_MENU
    /\ toggled < MaxToggles
    /\ Begin(u, "toggle_debug_mode", NoText)
    /\ res' = [res EXCEPT ![u] = None]
    /\ sent' = [sent EXCEPT ![u] = <<>>]
    /\ pc' = [pc EXCEPT ![u] = "t1"]
    /\ document' = [document EXCEPT ![u] = <<>>]
    /\ lastRoute' = <<>>
    /\ UNCHANGED fetched
    /\ UNCHANGED <<store, cache, conv, user_data, dbFailures, reloadFailed,
                   DEBUG_MODE, debug_file, logged, toggled>>

\* From the test of DEBUG_MODE to the next await.  Switching off: the flag,
\* and if the file exists it is opened and handed to send_document, else the
\* message that there is no file.  Switching on: the flag, a new file with
\* its header, and the message.
toggle_assign(u) ==
    /\ pc[u] = "t1"
    /\ DEBUG_MODE' = NewMode(DEBUG_MODE)
    /\ toggled' = toggled + 1
    /\ IF DEBUG_MODE
       THEN IF debug_file.exists
            THEN /\ document' = [document EXCEPT ![u] = <<debug_file>>]
                 /\ pc' = [pc EXCEPT ![u] = "t2"]
                 /\ UNCHANGED <<debug_file, logged, sent>>
            ELSE /\ sent' = [sent EXCEPT ![u] = <<"debug_off_no_file">>]
                 /\ pc' = [pc EXCEPT ![u] = "t3"]
                 /\ UNCHANGED <<debug_file, logged, document>>
       ELSE /\ debug_file' = NewFile
            /\ logged' = <<>>
            /\ sent' = [sent EXCEPT ![u] = <<"debug_on">>]
            /\ pc' = [pc EXCEPT ![u] = "t3"]
            /\ UNCHANGED document
    /\ lastRoute' = <<>>
    /\ UNCHANGED fetched
    /\ UNCHANGED <<store, cache, conv, user_data, op, inp, res, before, dbFailures,
                   reloadFailed>>

\* After send_document: os.remove(DEBUG_FILE_PATH) and the message; if the
\* file is gone os.remove raises and the except branch sends its message.
toggle_remove(u) ==
    /\ pc[u] = "t2"
    /\ IF debug_file.exists
       THEN /\ debug_file' = NoFile
            /\ sent' = [sent EXCEPT ![u] = <<"debug_off">>]
       ELSE /\ sent' = [sent EXCEPT ![u] = <<"send_error">>]
            /\ UNCHANGED debug_file
    /\ pc' = [pc EXCEPT ![u] = "t3"]
    /\ lastRoute' = <<>>
    /\ UNCHANGED fetched
    /\ UNCHANGED <<store, cache, conv, user_data, op, inp, res, before, dbFailures,
                   reloadFailed, DEBUG_MODE, logged, toggled, document>>

\* After asyncio.sleep(2): return await back_to_main(update, context).
toggle_back(u) ==
    /\ pc[u] = "t3"
    /\ sent' = [sent EXCEPT ![u] = Append(sent[u], "main_menu")]
    /\ conv' = [conv EXCEPT ![u] = MAIN_MENU]
    /\ pc' = [pc EXCEPT ![u] = "idle"]
    /\ lastRoute' = <<>>
    /\ UNCHANGED fetched
    /\ UNCHANGED debug
    /\ UNCHANGED <<store, cache, user_data, op, inp, res, before, dbFailures,
                   reloadFailed>>

\* ------------------------------------------------------------------------
\* Initial states and the next-state relation
\* ------------------------------------------------------------------------

EmptyMap == [k \in {} |-> None]

\* bot_config as the migration seeds it (0001_initial_schema.py, lines 72-76).
SeedConfig ==
    [k \in {"target_chat_id", "include_sender_info", "sender_format"} |->
        CASE k = "target_chat_id" -> <<>>
          [] k = "include_sender_info" -> TRUE_TEXT
          [] OTHER -> DEFAULT_SENDER_FORMAT]

\* The store of a bot in use: a topic, an active and a deactivated source
\* chat and a target chat.
UsedStore ==
    [topics |-> [p \in {<<"b">>} |-> [name |-> <<"N">>, topic_id |-> 2]],
     source_chats |-> [c \in {<<"7">>, <<"8">>} |->
                          [name |-> <<"S">>, is_active |-> (c = <<"7">>)]],
     bot_config |-> [SeedConfig EXCEPT !["target_chat_id"] = <<"9">>]]

Collations == {"C", "en_US"}

\* load_data_from_db() run to its end on store s: the cache it leaves.
Loaded(s, coll) ==
    /\ TOPIC_ROUTING = get_topics(s.topics, coll)
    /\ TOPIC_NAMES \in get_topic_names(s.topics)
    /\ SOURCE_CHATS = get_source_chats(s.source_chats)
    /\ TARGET_CHAT_ID = DictGet(s.bot_config, "target_chat_id", NoText)
    /\ INCLUDE_SENDER_INFO =
           (Lower(DictGet(s.bot_config, "include_sender_info", TRUE_TEXT)) = TRUE_TEXT)
    /\ SENDER_FORMAT = DictGet(s.bot_config, "sender_format", DEFAULT_SENDER_FORMAT)

\* No conversation is open and no handler runs.
Quiet ==
    /\ conv = [u \in Users |-> END]
    /\ user_data = [u \in Users |-> NoText]
    /\ pc = [u \in Users |-> "idle"]
    /\ op = [u \in Users |-> None]
    /\ inp = [u \in Users |-> NoText]
    /\ res = [u \in Users |-> None]
    /\ sent = [u \in Users |-> <<>>]
    /\ lastRoute = <<>>
    /\ before = [u \in Users |-> <<>>]
    /\ dbFailures = 0
    /\ reloadFailed = FALSE
    /\ DEBUG_MODE = FALSE
    /\ debug_file = NoFile
    /\ logged = <<>>
    /\ toggled = 0
    /\ document = [u \in Users |-> <<>>]
    /\ fetched = [u \in Users |-> <<>>]

\* post_init: migrations, then load_data_from_db() fills the cache from the store.
Init ==
    /\ topics = UsedStore.topics
    /\ source_chats = UsedStore.source_chats
    /\ bot_config = UsedStore.bot_config
    /\ collation \in Collations
    /\ Loaded(UsedStore, collation)
    /\ Quiet

Next ==
    \/ \E m \in ProbeMessages : handle_message(m)
    \/ handle_message_return
    \/ \E u \in Actors : start_command(u)
    \/ \E u \in Actors : admin_command(u)
    \/ \E u \in Actors : show_topics_menu(u)
    \/ \E u \in Actors : show_source_chats_menu(u)
    \/ \E u \in Actors : show_stats(u)
    \/ \E u \in Actors : start_add_topic(u)
    \/ \E u \in Actors : start_delete_topic(u)
    \/ \E u \in Actors : start_edit_topic(u)
    \/ \E u \in Actors : start_add_source_chat(u)
    \/ \E u \in Actors : start_delete_source_chat(u)
    \/ \E u \in Actors : start_set_target_chat(u)
    \/ \E u \in Actors : back_to_main(u)
    \/ \E u \in Actors : close_menu(u)
    \/ \E u \in Actors : cancel(u)
    \/ \E u \in Actors : handle_unknown_command(u)
    \/ \E u \in Actors, text \in PrefixTexts : process_edit_topic_prefix(u, text)
    \/ \E u \in Actors, text \in AddTopicTexts : process_add_topic(u, text)
    \/ \E u \in Actors, text \in PrefixTexts : process_delete_topic(u, text)
    \/ \E u \in Actors, text \in EditDataTexts : process_edit_topic_data(u, text)
    \/ \E u \in Actors, text \in AddSourceTexts : process_add_source_chat(u, text)
    \/ \E u \in Actors, text \in ChatIdTexts : process_delete_source_chat(u, text)
    \/ \E u \in Actors, text \in TargetTexts : process_set_target_chat(u, text)
    \/ \E u \in Actors : load_topics(u)
    \/ \E u \in Actors : load_topic_names(u)
    \/ \E u \in Actors : load_source_chats(u)
    \/ \E u \in Actors : load_config(u)
    \/ \E u \in Actors : finish(u)

Spec == Init /\ [][Next]_vars

\* ------------------------------------------------------------------------
\* The router alone, over the caches a reload can leave
\* ------------------------------------------------------------------------

\* Rows of the topics table.
RouteRows ==
    [p \in {<<"a">>, <<"A">>, <<"b">>} |->
        CASE p = <<"a">> -> [name |-> <<"N">>, topic_id |-> 1]
          [] p = <<"A">> -> [name |-> <<"M">>, topic_id |-> 2]
          [] OTHER -> [name |-> <<"N">>, topic_id |-> 2]]

\* A sender_format that uses the sender's id.
ID_SENDER_FORMAT == <<"{sender_id}", ": ", "{message}">>

\* Stores the bot runs on: any of the rows, the two source chats, and the
\* formatting switches as an operator may have set them.
RouteStores ==
    { [topics |-> [p \in D |-> RouteRows[p]],
       source_chats |-> UsedStore.source_chats,
       bot_config |-> [UsedStore.bot_config EXCEPT !["include_sender_info"] = inc,
                                                   !["sender_format"] = fmt]] :
        D \in SUBSET DOMAIN RouteRows,
        inc \in {TRUE_TEXT, <<"F", "a", "l", "s", "e">>},
        fmt \in {DEFAULT_SENDER_FORMAT, ID_SENDER_FORMAT} }

\* The cache after a reload of such a store, or after a reload that began on an
\* empty topics table and ended when get_topic_names raised.
InitRoute ==
    /\ \E s \in RouteStores :
          /\ topics = s.topics
          /\ source_chats = s.source_chats
          /\ bot_config = s.bot_config
          /\ collation \in Collations
          /\ TOPIC_ROUTING = get_topics(s.topics, collation)
          /\ TOPIC_NAMES \in get_topic_names(s.topics) \cup {EmptyMap}
          /\ SOURCE_CHATS = get_source_chats(s.source_chats)
          /\ TARGET_CHAT_ID = DictGet(s.bot_config, "target_chat_id", NoText)
          /\ INCLUDE_SENDER_INFO =
                 (Lower(DictGet(s.bot_config, "include_sender_info", TRUE_TEXT)) = TRUE_TEXT)
          /\ SENDER_FORMAT = DictGet(s.bot_config, "sender_format", DEFAULT_SENDER_FORMAT)
    /\ Quiet

NextRoute ==
    \/ \E m \in Messages : handle_message(m)
    \/ handle_message_return

SpecRoute == InitRoute /\ [][NextRoute]_vars

\* ------------------------------------------------------------------------
\* The admin conversation alone, with a caller who is not an administrator
\* ------------------------------------------------------------------------

NextEntry ==
    \/ \E u \in EntryActors : start_command(u)
    \/ \E u \in EntryActors : admin_command(u)
    \/ \E u \in EntryActors : show_topics_menu(u)
    \/ \E u \in EntryActors : show_source_chats_menu(u)
    \/ \E u \in EntryActors : show_stats(u)
    \/ \E u \in EntryActors : start_add_topic(u)
    \/ \E u \in EntryActors : start_delete_topic(u)
    \/ \E u \in EntryActors : start_edit_topic(u)
    \/ \E u \in EntryActors : start_add_source_chat(u)
    \/ \E u \in EntryActors : start_delete_source_chat(u)
    \/ \E u \in EntryActors : start_set_target_chat(u)
    \/ \E u \in EntryActors : back_to_main(u)
    \/ \E u \in EntryActors : close_menu(u)
    \/ \E u \in EntryActors : cancel(u)
    \/ \E u \in EntryActors : handle_unknown_command(u)
    \/ \E u \in EntryActors, text \in PrefixTexts : process_edit_topic_prefix(u, text)
    \/ \E u \in EntryActors, text \in AddTopicTexts : process_add_topic(u, text)
    \/ \E u \in EntryActors, text \in PrefixTexts : process_delete_topic(u, text)
    \/ \E u \in EntryActors, text \in EditDataTexts : process_edit_topic_data(u, text)
    \/ \E u \in EntryActors, text \in AddSourceTexts : process_add_source_chat(u, text)
    \/ \E u \in EntryActors, text \in ChatIdTexts : process_delete_source_chat(u, text)
    \/ \E u \in EntryActors, text \in TargetTexts : process_set_target_chat(u, text)
    \/ \E u \in EntryActors : load_topics(u)
    \/ \E u \in EntryActors : load_topic_names(u)
    \/ \E u \in EntryActors : load_source_chats(u)
    \/ \E u \in EntryActors : load_config(u)
    \/ \E u \in EntryActors : finish(u)

SpecEntry == Init /\ [][NextEntry]_vars

\* ------------------------------------------------------------------------
\* One administrator's conversation with every handler, without routing
\* ------------------------------------------------------------------------

NextAdmin ==
    \/ \E u \in Actors : start_command(u)
    \/ \E u \in Actors : admin_command(u)
    \/ \E u \in Actors : show_topics_menu(u)
    \/ \E u \in Actors : show_source_chats_menu(u)
    \/ \E u \in Actors : show_stats(u)
    \/ \E u \in Actors : start_add_topic(u)
    \/ \E u \in Actors : start_delete_topic(u)
    \/ \E u \in Actors : start_edit_topic(u)
    \/ \E u \in Actors : start_add_source_chat(u)
    \/ \E u \in Actors : start_delete_source_chat(u)
    \/ \E u \in Actors : start_set_target_chat(u)
    \/ \E u \in Actors : back_to_main(u)
    \/ \E u \in Actors : close_menu(u)
    \/ \E u \in Actors : cancel(u)
    \/ \E u \in Actors : handle_unknown_command(u)
    \/ \E u \in Actors : no_handler(u)
    \/ \E u \in Actors : toggle_debug_mode(u)
    \/ \E u \in Actors : toggle_assign(u)
    \/ \E u \in Actors : toggle_remove(u)
    \/ \E u \in Actors : toggle_back(u)
    \/ \E u \in Actors, text \in PrefixTexts : process_edit_topic_prefix(u, text)
    \/ \E u \in Actors, text \in AddTopicTexts : process_add_topic(u, text)
    \/ \E u \in Actors, text \in PrefixTexts : process_delete_topic(u, text)
    \/ \E u \in Actors, text \in EditDataTexts : process_edit_topic_data(u, text)
    \/ \E u \in Actors, text \in AddSourceTexts : process_add_source_chat(u, text)
    \/ \E u \in Actors, text \in ChatIdTexts : process_delete_source_chat(u, text)
    \/ \E u \in Actors, text \in TargetTexts : process_set_target_chat(u, text)
    \/ \E u \in Actors : load_topics(u)
    \/ \E u \in Actors : load_topic_names(u)
    \/ \E u \in Actors : load_source_chats(u)
    \/ \E u \in Actors : load_config(u)
    \/ \E u \in Actors : finish(u)

SpecAdmin == Init /\ [][NextAdmin]_vars

\* ------------------------------------------------------------------------
\* Two administrators at the debug button while messages are routed
\* ------------------------------------------------------------------------

DebugMessages ==
    { [chat_id |-> 7, text |-> <<"/", "b", " ", "h", "i">>, from_user |-> Sender1] }

NextDebug ==
    \/ \E m \in DebugMessages : handle_message(m)
    \/ handle_message_return
    \/ \E u \in ADMIN_IDS : start_command(u)
    \/ \E u \in ADMIN_IDS : close_menu(u)
    \/ \E u \in ADMIN_IDS : toggle_debug_mode(u)
    \/ \E u \in ADMIN_IDS : toggle_assign(u)
    \/ \E u \in ADMIN_IDS : toggle_remove(u)
    \/ \E u \in ADMIN_IDS : toggle_back(u)

SpecDebug == Init /\ [][NextDebug]_vars

\* ------------------------------------------------------------------------
\* Two administrators in the add-topic wizard at the same time
\* ------------------------------------------------------------------------

\* What the two type into the add wizard: the same prefix with different
\* names and ids, and another prefix.
PairAddTexts ==
    { <<"a", ":", "N", ":", "1">>, <<"a", ":", "M", ":", "2">>, <<"z", ":", "N", ":", "1">> }

NextPair ==
    \/ \E u \in ADMIN_IDS : start_command(u)
    \/ \E u \in ADMIN_IDS : show_topics_menu(u)
    \/ \E u \in ADMIN_IDS : start_add_topic(u)
    \/ \E u \in ADMIN_IDS, text \in PairAddTexts : process_add_topic(u, text)
    \/ \E u \in ADMIN_IDS : load_topics(u)
    \/ \E u \in ADMIN_IDS : load_topic_names(u)
    \/ \E u \in ADMIN_IDS : load_source_chats(u)
    \/ \E u \in ADMIN_IDS : load_config(u)
    \/ \E u \in ADMIN_IDS : finish(u)

SpecPair == Init /\ [][NextPair]_vars

\* ------------------------------------------------------------------------
\* Two administrators whose reloads overlap: one adds a topic while the
\* other deletes it, and each query of the topics is answered before the
\* reload that sent it is resumed
\* ------------------------------------------------------------------------

OverlapAddTexts == { <<"a", ":", "N", ":", "1">> }

OverlapPrefixTexts == { <<"a">> }

NextOverlap ==
    \/ \E u \in ADMIN_IDS : start_command(u)
    \/ \E u \in ADMIN_IDS : show_topics_menu(u)
    \/ \E u \in ADMIN_IDS : start_add_topic(u)
    \/ \E u \in ADMIN_IDS : start_delete_topic(u)
    \/ \E u \in ADMIN_IDS, text \in OverlapAddTexts : process_add_topic(u, text)
    \/ \E u \in ADMIN_IDS, text \in OverlapPrefixTexts : process_delete_topic(u, text)
    \/ \E u \in ADMIN_IDS : query_topics(u)
    \/ \E u \in ADMIN_IDS : assign_topics(u)
    \/ \E u \in ADMIN_IDS : query_topic_names(u)
    \/ \E u \in ADMIN_IDS : assign_topic_names(u)
    \/ \E u \in ADMIN_IDS : load_source_chats(u)
    \/ \E u \in ADMIN_IDS : load_config(u)
    \/ \E u \in ADMIN_IDS : finish(u)

SpecOverlap == Init /\ [][NextOverlap]_vars

\* ------------------------------------------------------------------------
\* An administrator who writes commands into the source chat in which the
\* administrator's conversation was opened
\* ------------------------------------------------------------------------

\* Commands for the router: a known prefix and an unknown one, from the
\* active source chat.
ChatMessages ==
    { [chat_id |-> 7, text |-> <<"/", "b", " ", "h", "i">>, from_user |-> Sender1],
      [chat_id |-> 7, text |-> <<"/", "z", " ", "h", "i">>, from_user |-> Sender1] }

\* main() adds the conversation handler before the MessageHandler of
\* handle_message, both in the default group, where the first handler that
\* accepts an update is the only one to run. A command other than /start,
\* /admin and /cancel from user u is accepted by the conversation's fallback
\* MessageHandler(filters.COMMAND, handle_unknown_command) when u has a
\* conversation open, and by handle_message otherwise.
command_update(u, m) ==
    IF conv[u] # END THEN handle_unknown_command(u) ELSE handle_message(m)

NextChat ==
    \/ \E u \in Actors : start_command(u)
    \/ \E u \in Actors : show_topics_menu(u)
    \/ \E u \in Actors : start_add_topic(u)
    \/ \E u \in Actors : back_to_main(u)
    \/ \E u \in Actors : close_menu(u)
    \/ \E u \in Actors : cancel(u)
    \/ \E u \in Actors, text \in AddTopicTexts : process_add_topic(u, text)
    \/ \E u \in Actors : load_topics(u)
    \/ \E u \in Actors : load_topic_names(u)
    \/ \E u \in Actors : load_source_chats(u)
    \/ \E u \in Actors : load_config(u)
    \/ \E u \in Actors : finish(u)
    \/ \E u \in Actors, m \in ChatMessages : command_update(u, m)
    \/ handle_message_return

SpecChat == Init /\ [][NextChat]_vars

\* ------------------------------------------------------------------------
\* An administrator who deletes until the tables are empty
\* ------------------------------------------------------------------------

EmptyingPrefixTexts == { <<"b">> }

EmptyingChatIdTexts == { <<"7">>, <<"8">> }

NextEmptying ==
    \/ \E u \in Actors : start_command(u)
    \/ \E u \in Actors : show_topics_menu(u)
    \/ \E u \in Actors : show_source_chats_menu(u)
    \/ \E u \in Actors : back_to_main(u)
    \/ \E u \in Actors : cancel(u)
    \/ \E u \in Actors : start_delete_topic(u)
    \/ \E u \in Actors : start_edit_topic(u)
    \/ \E u \in Actors : start_delete_source_chat(u)
    \/ \E u \in Actors, text \in EmptyingPrefixTexts : process_delete_topic(u, text)
    \/ \E u \in Actors, text \in EmptyingChatIdTexts : process_delete_source_chat(u, text)
    \/ \E u \in Actors : load_topics(u)
    \/ \E u \in Actors : load_topic_names(u)
    \/ \E u \in Actors : load_source_chats(u)
    \/ \E u \in Actors : load_config(u)
    \/ \E u \in Actors : finish(u)

SpecEmptying == Init /\ [][NextEmptying]_vars

\* ------------------------------------------------------------------------
\* Reloads of a store that does not change: an administrator sets the target
\* chat to the id it already has, again and again
\* ------------------------------------------------------------------------

\* The id bot_config has as target_chat_id.
ReloadTargetTexts == { <<"9">> }

\* The cache after the reload at startup has completed, over any of the
\* stores the bot runs on.
InitReload ==
    /\ \E s \in RouteStores :
          /\ topics = s.topics
          /\ source_chats = s.source_chats
          /\ bot_config = s.bot_config
          /\ collation \in Collations
          /\ Loaded(s, collation)
    /\ Quiet

NextReload ==
    \/ \E u \in Actors : start_command(u)
    \/ \E u \in Actors : start_set_target_chat(u)
    \/ \E u \in Actors, text \in ReloadTargetTexts : process_set_target_chat(u, text)
    \/ \E u \in Actors : load_topics(u)
    \/ \E u \in Actors : load_topic_names(u)
    \/ \E u \in Actors : load_source_chats(u)
    \/ \E u \in Actors : load_config(u)
    \/ \E u \in Actors : finish(u)

SpecReload == InitReload /\ [][NextReload]_vars

\* ------------------------------------------------------------------------
\* Two administrators in the edit-topic wizard at the same time
\* ------------------------------------------------------------------------

SessionPrefixTexts == { <<"b">>, <<"a">> }

SessionEditTexts == { <<"M", ":", "2">>, <<"K", ":", "1">> }

NextSessions ==
    \/ \E u \in ADMIN_IDS : start_command(u)
    \/ \E u \in ADMIN_IDS : show_topics_menu(u)
    \/ \E u \in ADMIN_IDS : start_edit_topic(u)
    \/ \E u \in ADMIN_IDS : cancel(u)
    \/ \E u \in ADMIN_IDS, text \in SessionPrefixTexts : process_edit_topic_prefix(u, text)
    \/ \E u \in ADMIN_IDS, text \in SessionEditTexts : process_edit_topic_data(u, text)
    \/ \E u \in ADMIN_IDS : load_topics(u)
    \/ \E u \in ADMIN_IDS : load_topic_names(u)
    \/ \E u \in ADMIN_IDS : load_source_chats(u)
    \/ \E u \in ADMIN_IDS : load_config(u)
    \/ \E u \in ADMIN_IDS : finish(u)

SpecSessions == Init /\ [][NextSessions]_vars

\* ------------------------------------------------------------------------
\* Properties
\* ------------------------------------------------------------------------

\* The wizard steps that change the store.
WizardOps == TopicOps \cup SourceOps \cup {"process_set_target_chat"}

\* A message "/p hi" from source chat 7.
Ask(p) == [chat_id |-> 7, text |-> <<"/">> \o p \o <<" ", "h", "i">>, from_user |-> Sender1]

\* The router forwards "/p hi" to topic d.
ForwardsTo(p, d) ==
    LET dec == Decide(Snapshot, Ask(p))
    IN  dec.kind = "Forward" /\ dec.message_thread_id = d

\* The prefix and the topic id of an accepted "prefix:name:topic_id".
AddedPrefix(text) == Strip(Split(Strip(text), ":", 2)[1])
AddedId(text) == ParseInt(Split(Strip(text), ":", 2)[3]).val

\* The shape of a routable text, read off the text itself: "/", a token of
\* one or more word characters, then the rest; the text is one line.
TokenLen(text) ==
    CHOOSE n \in 0..Len(text) :
        /\ \A i \in 2..(n + 1) : i <= Len(text) /\ text[i] \in WordChars
        /\ (n + 2 <= Len(text) => text[n + 2] \notin WordChars)
        /\ n + 1 <= Len(text)
HasToken(text) ==
    /\ text # NoText
    /\ text # <<>>
    /\ Head(text) = "/"
    /\ TokenLen(text) >= 1
    /\ \A i \in 1..Len(text) : text[i] # "\n"
Token(text) == Lower(SubSeq(text, 2, 1 + TokenLen(text)))
Remaining(text) == Strip(SubSeq(text, 2 + TokenLen(text), Len(text)))

C2_SuccessMeansLive ==
    \A u \in Users :
        (pc[u] = "finish" /\ res[u] = "ok") =>
            CASE op[u] = "process_add_topic" ->
                     (<<"7">> \in SOURCE_CHATS
                        => ForwardsTo(AddedPrefix(inp[u]), AddedId(inp[u])))
              [] op[u] = "process_edit_topic_data" ->
                     (<<"7">> \in SOURCE_CHATS
                        => ForwardsTo(user_data[u],
                                      ParseInt(Split(Strip(inp[u]), ":", 1)[2]).val))
              [] op[u] = "process_delete_topic" ->
                     Decide(Snapshot, Ask(LStripSlash(Strip(inp[u])))).kind # "Forward"
              [] op[u] = "process_add_source_chat" ->
                     Strip(Split(Strip(inp[u]), ":", 1)[1]) \in SOURCE_CHATS
              [] op[u] = "process_delete_source_chat" ->
                     Strip(inp[u]) \notin SOURCE_CHATS
              [] OTHER -> TARGET_CHAT_ID = Strip(inp[u])

\* C3: a reload that fails leaves the cache field for field what it was when
\* the reload began.
C3_FailedReloadKeepsSnapshot ==
    [][\A u \in Users :
          (before[u] # <<>> /\ res'[u] = "reload_exc" /\ before'[u] = <<>>)
              => Snapshot' = before[u][1]]_vars

\* C4: a wizard step whose store call or reload failed has sent an error
\* message and no success confirmation, and has left the conversation in the
\* step's owning menu or ended.
C4_FailureIsReported ==
    \A u \in Users :
        (op[u] \in WizardOps /\ pc[u] = "idle" /\ res[u] \in {"db_exc", "reload_exc"}) =>
            /\ \E i \in 1..Len(sent[u]) : sent[u][i] = "error"
            /\ \A i \in 1..Len(sent[u]) : sent[u][i] # "success"
            /\ conv[u] \in {OwningMenu(op[u]), END}

\* C5: an add-topic step whose prefix is already a prefix of the store gets
\* the conflict outcome from the store and leaves the topics table as it was,
\* and the step then sends the conflict message, again without changing it.
C5_DuplicatePrefixConflicts ==
    [][\A u \in Users :
          /\ (/\ pc[u] = "idle"
              /\ pc'[u] \in {"r1", "finish"}
              /\ op'[u] = "process_add_topic"
              /\ res'[u] \in {"ok", "no"}
              /\ AddedPrefix(inp'[u]) \in DOMAIN topics)
                 => (res'[u] = "no" /\ topics' = topics)
          /\ (/\ pc[u] = "finish"
              /\ pc'[u] = "idle"
              /\ op[u] = "process_add_topic"
              /\ res[u] = "no")
                 => (sent'[u][1] = "conflict" /\ topics' = topics)]_vars

\* C5 happens: the step for "b:M:1" was refused and the stored topic b still
\* has its name N and its topic id 2.
C5_Witness ==
    \E u \in Users :
        /\ pc[u] = "idle"
        /\ op[u] = "process_add_topic"
        /\ res[u] = "no"
        /\ sent[u] # <<>> /\ sent[u][1] = "conflict"
        /\ <<"b">> \in DOMAIN topics
        /\ topics[<<"b">>] = [name |-> <<"N">>, topic_id |-> 2]

\* C6: no two stored topics have prefixes that are equal when letter case is
\* ignored.
C6_PrefixesUniqueIgnoringCase ==
    \A p, q \in DOMAIN topics : Lower(p) = Lower(q) => p = q

\* C7: two messages that differ only in the letter case of their prefix get
\* the same decision, and when an add-topic step is about to confirm, the
\* lower-cased prefix it added is forwarded to the topic id it added.
C7_RoutingIgnoresCase ==
    /\ Decide(Snapshot, Ask(<<"a">>)).kind = Decide(Snapshot, Ask(<<"A">>)).kind
    /\ Decide(Snapshot, Ask(<<"a">>)) = Decide(Snapshot, Ask(<<"A">>))
    /\ \A u \in Users :
          (/\ pc[u] = "finish"
           /\ op[u] = "process_add_topic"
           /\ res[u] = "ok"
           /\ <<"7">> \in SOURCE_CHATS)
              => ForwardsTo(Lower(AddedPrefix(inp[u])), AddedId(inp[u]))

\* The sender fields a rendering uses, with the fixed fallbacks.
ShownName(m) ==
    IF m.from_user # <<>> /\ m.from_user[1].full_name # <<>>
    THEN m.from_user[1].full_name ELSE UNKNOWN_NAME
ShownUsername(m) ==
    IF m.from_user # <<>> /\ m.from_user[1].username # NoText
    THEN <<"@">> \o m.from_user[1].username ELSE NO_USERNAME
ShownId(m) == IF m.from_user # <<>> THEN <<m.from_user[1].id>> ELSE UNKNOWN_ID

\* C8: a one-line text message from an active source whose lower-cased token
\* is a key of TOPIC_ROUTING is forwarded to the target chat, to the topic
\* TOPIC_ROUTING gives for the token; the text is the remaining text when
\* INCLUDE_SENDER_INFO is false, and otherwise SENDER_FORMAT with the
\* sender's name, username and id (or their fallbacks) and the remaining text.
C8_ForwardDecision ==
    lastRoute # <<>> =>
        LET m == lastRoute[1].msg
            dec == lastRoute[1].dec
        IN  (/\ HasToken(m.text)
             /\ Str(m.chat_id) \in SOURCE_CHATS
             /\ Token(m.text) \in DOMAIN TOPIC_ROUTING)
                => /\ dec.kind = "Forward"
                   /\ dec.chat_id = TARGET_CHAT_ID
                   /\ dec.message_thread_id = TOPIC_ROUTING[Token(m.text)]
                   /\ dec.text =
                        IF ~INCLUDE_SENDER_INFO THEN Remaining(m.text)
                        ELSE IF SENDER_FORMAT = DEFAULT_SENDER_FORMAT
                        THEN Remaining(m.text) \o <<"\n", "Otpravil: ">> \o ShownName(m)
                             \o <<" (">> \o ShownUsername(m) \o <<")">>
                        ELSE ShownId(m) \o <<": ">> \o Remaining(m.text)

\* C8 happens: a message without a sender and without remaining text was
\* forwarded under the format that shows the sender's id, with the fallback.
C8_Witness ==
    /\ lastRoute # <<>>
    /\ lastRoute[1].dec.kind = "Forward"
    /\ lastRoute[1].msg.from_user = <<>>
    /\ INCLUDE_SENDER_INFO
    /\ SENDER_FORMAT = ID_SENDER_FORMAT
    /\ lastRoute[1].dec.text = UNKNOWN_ID \o <<": ">>

\* C9: a one-line text message from an active source whose lower-cased token
\* is not a key of TOPIC_ROUTING is rejected; the reply goes to the chat the
\* message came from and lists every key of TOPIC_ROUTING once, in ascending
\* order, with its name when TOPIC_NAMES is not empty and bare otherwise.
C9_RejectDecision ==
    lastRoute # <<>> =>
        LET m == lastRoute[1].msg
            dec == lastRoute[1].dec
        IN  (/\ HasToken(m.text)
             /\ Str(m.chat_id) \in SOURCE_CHATS
             /\ Token(m.text) \notin DOMAIN TOPIC_ROUTING)
                => /\ dec.kind = "Reject"
                   /\ dec.chat_id = m.chat_id
                   /\ dec.text.named = (DOMAIN TOPIC_NAMES # {})
                   /\ LET l == dec.text.listing
                          key(i) == IF dec.text.named THEN l[i][1] ELSE l[i]
                      IN  /\ Len(l) = Cardinality(DOMAIN TOPIC_ROUTING)
                          /\ {key(i) : i \in 1..Len(l)} = DOMAIN TOPIC_ROUTING
                          /\ \A i \in 1..(Len(l) - 1) : StrLess(key(i), key(i + 1))
                          /\ dec.text.named =>
                                \A i \in 1..Len(l) :
                                    l[i][2] = IF l[i][1] \in DOMAIN TOPIC_NAMES
                                              THEN TOPIC_NAMES[l[i][1]] ELSE l[i][1]

\* C9 happens: a message with an unknown prefix was rejected while the cache
\* held two prefixes with their names.
C9_Witness ==
    /\ lastRoute # <<>>
    /\ lastRoute[1].dec.kind = "Reject"
    /\ DOMAIN TOPIC_ROUTING = {<<"a">>, <<"b">>}
    /\ lastRoute[1].dec.text.named
    /\ Len(lastRoute[1].dec.text.listing) = 2

\* C10: a message without text, or from a chat that is not in SOURCE_CHATS,
\* is ignored: nothing is forwarded and no reply is sent.
C10_IgnoredMessages ==
    lastRoute # <<>> =>
        ((lastRoute[1].msg.text = NoText
            \/ Str(lastRoute[1].msg.chat_id) \notin SOURCE_CHATS)
         => lastRoute[1].dec.kind = "Ignore")

\* C10 happens: a message with a known prefix came from chat 8, which is
\* stored but not active, and was ignored.
C10_Witness ==
    /\ lastRoute # <<>>
    /\ lastRoute[1].msg.chat_id = 8
    /\ <<"a">> \in DOMAIN TOPIC_ROUTING
    /\ lastRoute[1].msg.text = <<"/", "a", " ", "h", "i">>
    /\ lastRoute[1].dec.kind = "Ignore"

\* The handler's step that called the store and got an answer: user u was idle
\* and now runs handler name past its store call.
StoreAnswered(u, name) ==
    /\ pc[u] = "idle"
    /\ pc'[u] \in {"r1", "finish"}
    /\ op'[u] = name
    /\ res'[u] \in {"ok", "no"}

\* The last step of a wizard handler of user u: the outcome message and the menu.
Finishes(u) == pc[u] = "finish" /\ pc'[u] = "idle"

\* C11: a source chat whose is_active is false is never in SOURCE_CHATS, a
\* message from it is ignored, and the steps of a reload leave the table
\* source_chats, and so the inactive row, as it is.
C11_InactiveSourceExcluded ==
    /\ [](/\ \A c \in DOMAIN source_chats :
                ~source_chats[c].is_active => c \notin SOURCE_CHATS
          /\ lastRoute # <<>> =>
                LET c == Str(lastRoute[1].msg.chat_id)
                IN  (c \in DOMAIN source_chats /\ ~source_chats[c].is_active)
                        => lastRoute[1].dec.kind = "Ignore")
    /\ [][(\E u \in Users : pc[u] \in {"r1", "r2", "r3", "r4"} /\ pc'[u] # pc[u])
            => source_chats' = source_chats]_vars

\* C11 happens: after a wizard step reloaded the cache, a message with a known
\* prefix from the stored, inactive chat 8 was ignored.
C11_Witness ==
    /\ lastRoute # <<>>
    /\ lastRoute[1].msg.chat_id = 8
    /\ lastRoute[1].dec.kind = "Ignore"
    /\ <<"b">> \in DOMAIN TOPIC_ROUTING
    /\ <<"8">> \in DOMAIN source_chats /\ ~source_chats[<<"8">>].is_active
    /\ \E u \in Users : op[u] \in WizardOps /\ res[u] = "ok" /\ pc[u] = "idle"

\* C12: a step that produces a routing decision changes neither the store nor
\* the cache nor any user's conversation state, pending prefix or running
\* handler.
C12_RoutingChangesNothing ==
    [][lastRoute' # <<>> =>
          /\ <<topics, source_chats, bot_config>>' = <<topics, source_chats, bot_config>>
          /\ Snapshot' = Snapshot
          /\ <<conv, user_data, pc, op, inp, res, sent>>'
                = <<conv, user_data, pc, op, inp, res, sent>>]_vars

\* C12 happens: a message was rejected while an administrator was in the edit
\* wizard with a pending prefix.
C12_Witness ==
    /\ lastRoute # <<>>
    /\ lastRoute[1].dec.kind = "Reject"
    /\ conv["admin1"] = WAITING_TOPIC_EDIT_DATA
    /\ user_data["admin1"] # NoText

\* C13: /start or /admin leaves an administrator in MAIN_MENU and anyone else
\* in END; a user who is not an administrator is never in another state than
\* END; and every step that changes the store is the store call of a wizard
\* handler run by an administrator.
C13_OnlyAdministrators ==
    /\ [](/\ \A u \in Users \ ADMIN_IDS : conv[u] = END
          /\ \A u \in Users :
                (op[u] \in {"start_command", "admin_command"} /\ pc[u] = "idle")
                    => conv[u] = IF u \in ADMIN_IDS THEN MAIN_MENU ELSE END)
    /\ [][<<topics, source_chats, bot_config>>' # <<topics, source_chats, bot_config>>
            => \E u \in ADMIN_IDS : op'[u] \in WizardOps /\ StoreAnswered(u, op'[u])]_vars

\* C13 happens: a user who is not an administrator sent /admin and was
\* refused, while an administrator has changed the topics table.
C13_Witness ==
    /\ op["user3"] = "admin_command"
    /\ sent["user3"] = <<"no_access">>
    /\ conv["user3"] = END
    /\ topics # UsedStore.topics
    /\ conv["admin1"] # END

\* The text does not have the shape the handler's wizard asks for.
BadShape(name, text) ==
    LET t == Strip(text)
    IN  CASE name = "process_add_topic" ->
                 Count(t, ":") # 2 \/ ~ParseInt(Split(t, ":", 2)[3]).ok
          [] name = "process_edit_topic_data" ->
                 Count(t, ":") # 1 \/ ~ParseInt(Split(t, ":", 1)[2]).ok
          [] name = "process_add_source_chat" -> Count(t, ":") # 1
          [] OTHER -> FALSE

\* The waiting state a wizard handler is registered for.
WaitingOf(name) ==
    CASE name = "process_add_topic" -> WAITING_TOPIC_DATA
      [] name = "process_edit_topic_data" -> WAITING_TOPIC_EDIT_DATA
      [] name = "process_add_source_chat" -> WAITING_SOURCE_CHAT_DATA
      [] OTHER -> END

\* C14: when the add-topic, edit-topic-data or add-source-chat handler gets a
\* text of the wrong shape, the conversation stays in its waiting state, the
\* handler ends without a store call, and store and cache are unchanged.
C14_BadShapeReprompts ==
    [][\A u \in Users :
          (/\ pc[u] = "idle"
           /\ conv[u] = WaitingOf(op'[u])
           /\ inp'[u] # NoText
           /\ BadShape(op'[u], inp'[u]))
              => /\ conv'[u] = conv[u]
                 /\ pc'[u] = "idle"
                 /\ <<topics, source_chats, bot_config>>' = <<topics, source_chats, bot_config>>
                 /\ Snapshot' = Snapshot]_vars

\* C15: a wizard handler whose store call answered conflict or not found ends
\* by sending the failure message, leaves the conversation in the owning menu
\* and does not change the store.
C15_RefusalReturnsToMenu ==
    [][\A u \in Users :
          (Finishes(u) /\ op[u] \in TopicOps \cup SourceOps /\ res[u] = "no")
              => /\ sent'[u] # <<>>
                 /\ sent'[u][1] = (IF op[u] \in AddOps THEN "conflict" ELSE "not_found")
                 /\ conv'[u] = OwningMenu(op[u])
                 /\ <<topics, source_chats, bot_config>>'
                       = <<topics, source_chats, bot_config>>]_vars

\* The key a delete handler was given.
DeletedKey(name, text) ==
    IF name = "process_delete_topic" THEN LStripSlash(Strip(text)) ELSE Strip(text)

\* C16: a delete of a topic prefix or a source chat id that is not in its
\* table is answered not found and leaves the tables as they were, and the
\* handler then sends the not-found message, again without changing them.
C16_DeleteOfAbsentKey ==
    [][\A u \in Users :
          /\ \A name \in {"process_delete_topic", "process_delete_source_chat"} :
                (/\ StoreAnswered(u, name)
                 /\ DeletedKey(name, inp'[u]) \notin
                       (IF name = "process_delete_topic" THEN DOMAIN topics
                        ELSE DOMAIN source_chats))
                    => /\ res'[u] = "no"
                       /\ topics' = topics
                       /\ source_chats' = source_chats
          /\ (/\ Finishes(u)
              /\ op[u] \in {"process_delete_topic", "process_delete_source_chat"}
              /\ res[u] = "no")
                 => /\ sent'[u][1] = "not_found"
                    /\ topics' = topics
                    /\ source_chats' = source_chats]_vars

\* C16 happens: source chat 7 was deleted, and a second delete of 7 was
\* answered not found.
C16_Witness ==
    \E u \in Users :
        /\ pc[u] = "idle"
        /\ op[u] = "process_delete_source_chat"
        /\ res[u] = "no"
        /\ sent[u] # <<>> /\ sent[u][1] = "not_found"
        /\ <<"7">> \notin DOMAIN source_chats

\* C17: an add-source-chat step whose chat id is already in the table, active
\* or not, is refused and leaves the table as it was, and the handler ends in
\* SOURCE_CHATS_MENU, again without changing the table.
C17_DuplicateSourceRefused ==
    [][\A u \in Users :
          /\ (/\ StoreAnswered(u, "process_add_source_chat")
              /\ Strip(Split(Strip(inp'[u]), ":", 1)[1]) \in DOMAIN source_chats)
                 => (res'[u] = "no" /\ source_chats' = source_chats)
          /\ (Finishes(u) /\ op[u] = "process_add_source_chat" /\ res[u] = "no")
                 => (conv'[u] = SOURCE_CHATS_MENU /\ source_chats' = source_chats)]_vars

C19_EditChangesOneTopic ==
    [][\A u \in Users :
          /\ (/\ pc[u] = "idle"
              /\ pc'[u] = "r1"
              /\ op'[u] = "process_edit_topic_data")
                 => /\ user_data[u] \in DOMAIN topics
                    /\ DOMAIN topics' = DOMAIN topics
                    /\ \A q \in DOMAIN topics \ {user_data[u]} : topics'[q] = topics[q]
                    /\ topics'[user_data[u]] =
                          [name |-> Strip(Split(Strip(inp'[u]), ":", 1)[1]),
                           topic_id |-> ParseInt(Split(Strip(inp'[u]), ":", 1)[2]).val]
                    /\ source_chats' = source_chats
                    /\ bot_config' = bot_config
          /\ (Finishes(u) /\ op[u] = "process_edit_topic_data" /\ res[u] = "ok")
                 => /\ conv'[u] = TOPICS_MENU
                    /\ <<topics, source_chats, bot_config>>'
                          = <<topics, source_chats, bot_config>>]_vars

\* C20: a user has a pending edit prefix only while the conversation is in
\* WAITING_TOPIC_EDIT_DATA.
C20_PendingOnlyInEditData ==
    \A u \in Users : user_data[u] # NoText => conv[u] = WAITING_TOPIC_EDIT_DATA

\* C21: /cancel can be taken in each of the seven waiting states whenever the
\* user's previous handler has ended, and the step that takes it leaves the
\* conversation in END with no handler running, the store unchanged and the
\* cache unchanged.
C21_CancelEnds ==
    /\ [](\A u \in Actors :
             (Idle(u) /\ conv[u] \in WaitingStates) => ENABLED cancel(u))
    /\ [][\A u \in Users :
             (conv[u] \in WaitingStates /\ op'[u] = "cancel")
                 => /\ conv'[u] = END
                    /\ pc'[u] = "idle"
                    /\ sent'[u] = <<"cancelled">>
                    /\ <<topics, source_chats, bot_config>>'
                          = <<topics, source_chats, bot_config>>
                    /\ Snapshot' = Snapshot]_vars

\* C21 happens: the edit wizard was cancelled after its prefix was chosen.
C21_Witness ==
    \E u \in Users :
        /\ op[u] = "cancel"
        /\ conv[u] = END
        /\ sent[u] = <<"cancelled">>
        /\ user_data[u] = <<"a">>

\* C22: a set-target step whose store call was answered has succeeded and has
\* made the stripped text the value of the key target_chat_id, the other keys
\* of bot_config being what they were; the handler ends in MAIN_MENU; and
\* when store call and reload both succeeded it ends with the success message
\* while bot_config and TARGET_CHAT_ID hold the entered id.
C22_SetTargetUpserts ==
    [][\A u \in Users :
          /\ StoreAnswered(u, "process_set_target_chat")
                => /\ res'[u] = "ok"
                   /\ DOMAIN bot_config' = DOMAIN bot_config \cup {"target_chat_id"}
                   /\ bot_config'["target_chat_id"] = Strip(inp'[u])
                   /\ \A k \in DOMAIN bot_config \ {"target_chat_id"} :
                         bot_config'[k] = bot_config[k]
          /\ (Finishes(u) /\ op[u] = "process_set_target_chat")
                => conv'[u] = MAIN_MENU
          /\ (Finishes(u) /\ op[u] = "process_set_target_chat" /\ res[u] = "ok")
                => /\ sent'[u][1] = "success"
                   /\ bot_config'["target_chat_id"] = Strip(inp[u])
                   /\ TARGET_CHAT_ID' = Strip(inp[u])]_vars

\* C22 happens: the target chat, 9 at the start, was set to 8, the cache was
\* reloaded and the administrator is back in the main menu.
C22_Witness ==
    \E u \in Users :
        /\ op[u] = "process_set_target_chat"
        /\ pc[u] = "idle"
        /\ res[u] = "ok"
        /\ conv[u] = MAIN_MENU
        /\ bot_config["target_chat_id"] = <<"8">>
        /\ TARGET_CHAT_ID = <<"8">>

\* C23: every assignment toggle_debug_mode makes to DEBUG_MODE inverts it, so
\* after n of them, by whichever administrators, DEBUG_MODE is False, its
\* value at the start, exactly when n is even; the message that debugging was
\* switched on is sent only by a toggle that found it off.
C23_ToggleFlips ==
    /\ [](DEBUG_MODE = (toggled % 2 = 1))
    /\ [][/\ toggled' # toggled
             => (toggled' = toggled + 1 /\ DEBUG_MODE' = ~DEBUG_MODE)
          /\ \A u \in Users :
                (pc[u] = "t1" /\ pc'[u] # "t1" /\ sent'[u] = <<"debug_on">>)
                    => (~DEBUG_MODE /\ DEBUG_MODE')]_vars

\* C23 happens: one administrator switched debugging on and the other, with
\* the next toggle, switched it off.
C23_Witness ==
    /\ toggled = 2
    /\ ~DEBUG_MODE
    /\ op["admin1"] = "toggle_debug_mode" /\ sent["admin1"] = <<"debug_on", "main_menu">>
    /\ op["admin2"] = "toggle_debug_mode" /\ pc["admin2"] = "idle"
    /\ document["admin2"] # <<>>

C25_FallbackShowsMainMenu ==
    [][\A u \in Users :
          (/\ conv[u] \in MenuStates
           /\ op'[u] \in {"no_handler", "handle_unknown_command"})
              => conv'[u] = (IF u \in ADMIN_IDS THEN MAIN_MENU ELSE END)]_vars

\* C25 as amended: in a menu state a command that is not /cancel takes an
\* administrator's conversation to MAIN_MENU with the main menu sent, and
\* ends the conversation of anybody else; a text that is no command, or a
\* button the state has no handler for, runs no handler: nothing is sent and
\* the conversation state, the store and the cache stay what they were.
C25_UnknownCommandShowsMainMenu ==
    [][\A u \in Users :
          /\ (conv[u] \in MenuStates /\ op'[u] = "handle_unknown_command")
                => IF u \in ADMIN_IDS
                   THEN conv'[u] = MAIN_MENU /\ sent'[u] = <<"main_menu">>
                   ELSE conv'[u] = END
          /\ (conv[u] \in MenuStates /\ op'[u] = "no_handler")
                => /\ conv'[u] = conv[u]
                   /\ sent'[u] = <<>>
                   /\ pc'[u] = "idle"
                   /\ <<topics, source_chats, bot_config>>'
                         = <<topics, source_chats, bot_config>>
                   /\ Snapshot' = Snapshot]_vars

\* C25 happens: an administrator sent an unknown command while a
\* conversation was open and has the main menu again.
C25_Witness ==
    \E u \in ADMIN_IDS :
        /\ op[u] = "handle_unknown_command"
        /\ conv[u] = MAIN_MENU
        /\ sent[u] = <<"main_menu">>

\* The handlers whose return ends an administrator's conversation: /cancel,
\* the close button, and the delete and edit entries that find nothing to
\* list or no pending prefix.
EndingOps ==
    {"cancel", "close_menu", "start_delete_topic", "start_edit_topic",
     "start_delete_source_chat", "process_edit_topic_data"}

\* C26: an administrator's conversation goes to END only by /cancel, by the
\* close button or by a handler that answers once and ends; whenever it is in
\* END and the administrator's last handler has returned, /start and /admin
\* are accepted, and such a step leaves the conversation in MAIN_MENU with
\* the main menu sent, whatever the ended conversation left behind.
C26_EndedThenFreshSession ==
    /\ [](\A u \in Actors \cap ADMIN_IDS :
             (Idle(u) /\ conv[u] = END)
                 => ENABLED start_command(u) /\ ENABLED admin_command(u))
    /\ [][\A u \in ADMIN_IDS :
             /\ (conv[u] # END /\ conv'[u] = END) => op'[u] \in EndingOps
             /\ (/\ conv[u] = END
                 /\ op'[u] \in {"start_command", "admin_command"}
                 /\ op'[u] # op[u])
                    => /\ conv'[u] = MAIN_MENU
                       /\ sent'[u] = <<"main_menu">>
                       /\ pc'[u] = "idle"]_vars

\* C26 happens: an administrator whose earlier conversation ended with a
\* prefix still pending sent /start and is in MAIN_MENU.
C26_Witness ==
    \E u \in ADMIN_IDS :
        /\ op[u] = "start_command"
        /\ conv[u] = MAIN_MENU
        /\ sent[u] = <<"main_menu">>
        /\ user_data[u] # NoText

\* The waiting state whose text a wizard's store-calling handler takes.
WizardState(name) ==
    CASE name = "process_add_topic" -> WAITING_TOPIC_DATA
      [] name = "process_delete_topic" -> WAITING_TOPIC_PREFIX
      [] name = "process_edit_topic_data" -> WAITING_TOPIC_EDIT_DATA
      [] name = "process_add_source_chat" -> WAITING_SOURCE_CHAT_DATA
      [] name = "process_delete_source_chat" -> DELETE_SOURCE_CHAT
      [] name = "process_set_target_chat" -> SET_TARGET_CHAT

\* C27: a step that changes the rows of topics, source_chats or bot_config is
\* the store call of the handler that takes the text of one of the six
\* wizards, made by an administrator whose conversation waits in that
\* wizard's state, and the call answered success; so /start, /admin, the
\* menu buttons, the statistics, the debug toggle, /cancel, close, the
\* fallback, unhandled input and the steps of a reload leave the rows as
\* they are.
C27_OnlyWizardsWrite ==
    [][<<topics, source_chats, bot_config>>' # <<topics, source_chats, bot_config>>
          => \E u \in ADMIN_IDS :
                /\ pc[u] = "idle" /\ pc'[u] = "r1"
                /\ op'[u] \in WizardOps
                /\ conv[u] = WizardState(op'[u])
                /\ res'[u] = "ok"]_vars

\* C27 happens: the rows are no longer those of the start, and the
\* administrator has since looked at the statistics and toggled debugging.
C27_Witness ==
    \E u \in ADMIN_IDS :
        /\ <<topics, source_chats, bot_config>>
              # <<UsedStore.topics, UsedStore.source_chats, UsedStore.bot_config>>
        /\ op[u] = "show_stats"
        /\ sent[u] = <<"stats">>
        /\ toggled > 0

\* No handler is suspended: every handler that was started has returned or
\* was left by an exception, and with it every reload.
Quiescent == \A u \in Users : pc[u] = "idle" /\ before[u] = <<>>

AddedRow(text) ==
    LET parts == Split(Strip(text), ":", 2)
    IN  [name |-> Strip(parts[2]), topic_id |-> ParseInt(parts[3]).val]

\* User u runs process_add_topic and the store has answered its call.
AddAnswered(u) ==
    /\ op[u] = "process_add_topic"
    /\ pc[u] # "idle"
    /\ res[u] \in {"ok", "no"}

\* C29: when the add-topic handlers of two administrators run at the same
\* time with the same prefix and the store has answered both, the prefix is
\* in the table, they did not both get success, and if one got success the
\* other got the conflict and the row has the name and the topic id of the
\* one that got success; the store's answer to an add call is success exactly
\* when the prefix was not in the table, whether or not the cache has it.
C29_OneAddWins ==
    /\ [](\A u, v \in ADMIN_IDS :
             (/\ u # v
              /\ AddAnswered(u) /\ AddAnswered(v)
              /\ AddedPrefix(inp[u]) = AddedPrefix(inp[v]))
                 => /\ AddedPrefix(inp[u]) \in DOMAIN topics
                    /\ ~(res[u] = "ok" /\ res[v] = "ok")
                    /\ res[u] = "ok"
                          => /\ res[v] = "no"
                             /\ topics[AddedPrefix(inp[u])] = AddedRow(inp[u]))
    /\ [][\A u \in ADMIN_IDS :
             StoreAnswered(u, "process_add_topic")
                 => /\ (res'[u] = "ok") = (AddedPrefix(inp'[u]) \notin DOMAIN topics)
                    /\ AddedPrefix(inp'[u]) \in DOMAIN topics'
                    /\ res'[u] = "ok"
                          => topics'[AddedPrefix(inp'[u])] = AddedRow(inp'[u])]_vars

\* C29 happens: one administrator's "a:N:1" got success and its reload has
\* not yet put a into TOPIC_ROUTING, the other's "a:M:2" got the conflict,
\* and the row of a is N, 1.
C29_Witness ==
    \E u, v \in ADMIN_IDS :
        /\ u # v
        /\ AddAnswered(u) /\ res[u] = "ok"
        /\ inp[u] = <<"a", ":", "N", ":", "1">>
        /\ AddAnswered(v) /\ res[v] = "no"
        /\ inp[v] = <<"a", ":", "M", ":", "2">>
        /\ <<"a">> \notin DOMAIN TOPIC_ROUTING
        /\ topics[<<"a">>] = [name |-> <<"N">>, topic_id |-> 1]

\* What tells that a handler of user u took a step: where it is suspended,
\* which handler it is, its text, its outcome, what it sent.
Progress(u) == <<pc[u], op[u], inp[u], res[u], sent[u]>>

\* C31: a step of a handler of one user leaves the conversation state and the
\* pending prefix of every other user as they are, and a conversation leaves
\* a waiting state only in a step of a handler of its own user.
C31_SessionsIndependent ==
    [][/\ \A u, v \in Users :
             (u # v /\ Progress(u)' # Progress(u))
                 => (conv'[v] = conv[v] /\ user_data'[v] = user_data[v])
       /\ \A u \in Users :
             (conv[u] \in WaitingStates /\ conv'[u] # conv[u])
                 => Progress(u)' # Progress(u)]_vars

\* C31 happens: one administrator chose prefix b and is still asked for the
\* new data, while the other has since gone through the whole edit wizard.
C31_Witness ==
    \E u, v \in ADMIN_IDS :
        /\ u # v
        /\ conv[u] = WAITING_TOPIC_EDIT_DATA
        /\ user_data[u] = <<"b">>
        /\ op[v] = "process_edit_topic_data"
        /\ pc[v] = "idle"
        /\ res[v] = "ok"
        /\ user_data[v] = NoText

\* C32: a delete step whose text is a prefix of the topics listing, which
\* shows the keys of get_topics, deletes a row and is answered success, and
\* an edit step whose chosen prefix is in that listing changes a row and is
\* answered success, in whatever letter case the topic was added.
C32_ListedPrefixIsFound ==
    [][\A u \in ADMIN_IDS :
          /\ (/\ StoreAnswered(u, "process_delete_topic")
              /\ DeletedKey("process_delete_topic", inp'[u])
                    \in DOMAIN get_topics(topics, collation))
                 => (res'[u] = "ok" /\ topics' # topics)
          /\ (/\ StoreAnswered(u, "process_edit_topic_data")
              /\ user_data[u] \in DOMAIN get_topics(topics, collation))
                 => (/\ res'[u] = "ok"
                     /\ \E p \in DOMAIN topics' :
                           /\ Lower(p) = user_data[u]
                           /\ topics'[p].name = Strip(Split(Strip(inp'[u]), ":", 1)[1]))]_vars

\* C33: the decision about a message from a chat of SOURCE_CHATS whose text
\* begins with "/" and a word character is Forward or Reject, never Ignore.
C33_SlashTokenIsRouted ==
    (/\ lastRoute # <<>>
     /\ Str(lastRoute[1].msg.chat_id) \in SOURCE_CHATS
     /\ lastRoute[1].msg.text # NoText
     /\ Len(lastRoute[1].msg.text) >= 2
     /\ lastRoute[1].msg.text[1] = "/"
     /\ lastRoute[1].msg.text[2] \in WordChars)
        => lastRoute[1].dec.kind \in {"Forward", "Reject"}

\* C34: a step in which a command for the router arrives from the active
\* source chat ends with a decision Forward or Reject about that message,
\* whether or not its sender has a conversation open.
C34_SessionNeverConsumes ==
    [][\A u \in Actors, m \in ChatMessages :
          command_update(u, m)
              => /\ lastRoute' # <<>>
                 /\ lastRoute'[1].msg = m
                 /\ lastRoute'[1].dec.kind \in {"Forward", "Reject"}]_vars

\* C35: whenever the router has decided about a message, TOPIC_ROUTING and
\* TOPIC_NAMES of the cache it read have the same prefixes, and for each of
\* them one row of the table topics has that prefix, lower-cased, with the
\* topic id of TOPIC_ROUTING and the name of TOPIC_NAMES.
C35_NamesMatchRouting ==
    lastRoute # <<>>
        => /\ DOMAIN TOPIC_ROUTING = DOMAIN TOPIC_NAMES
           /\ \A k \in DOMAIN TOPIC_ROUTING \cap DOMAIN TOPIC_NAMES :
                 \E p \in DOMAIN topics :
                    /\ Lower(p) = k
                    /\ topics[p].topic_id = TOPIC_ROUTING[k]
                    /\ topics[p].name = TOPIC_NAMES[k]

C37_UnknownCommandAbandons ==
    /\ [](\A u \in Actors \cap ADMIN_IDS :
             (Idle(u) /\ conv[u] # END) => ENABLED handle_unknown_command(u))
    /\ [][\A u \in ADMIN_IDS :
             (conv[u] # END /\ op'[u] = "handle_unknown_command")
                 => /\ conv'[u] = MAIN_MENU
                    /\ sent'[u] = <<"main_menu">>
                    /\ pc'[u] = "idle"
                    /\ before'[u] = <<>>
                    /\ <<topics, source_chats, bot_config>>'
                          = <<topics, source_chats, bot_config>>
                    /\ Snapshot' = Snapshot]_vars

\* C37 happens: an administrator who had chosen a prefix to edit sent an
\* unknown command and is in MAIN_MENU, the chosen prefix still pending.
C37_Witness ==
    \E u \in ADMIN_IDS :
        /\ op[u] = "handle_unknown_command"
        /\ conv[u] = MAIN_MENU
        /\ pc[u] = "idle"
        /\ user_data[u] = <<"a">>
        /\ topics # UsedStore.topics

\* The button handlers that open a selection, the state each opens and the
\* message each sends when there is nothing to select.
SelectionOps == {"start_delete_topic", "start_edit_topic", "start_delete_source_chat"}

SelectionState(name) ==
    CASE name = "start_delete_topic" -> WAITING_TOPIC_PREFIX
      [] name = "start_edit_topic" -> WAITING_TOPIC_EDIT_PREFIX
      [] name = "start_delete_source_chat" -> DELETE_SOURCE_CHAT

NothingMessage(name) ==
    IF name = "start_delete_source_chat" THEN "no_chats" ELSE "no_topics"

\* The table the handler lists has no row.
NoCandidate(name) ==
    IF name = "start_delete_source_chat" THEN DOMAIN source_chats = {}
    ELSE DOMAIN topics = {}

\* C38: the delete-topic, edit-topic and delete-source-chat buttons, when
\* the store answers, end the conversation with a message if the table they
\* list is empty and open their selection state otherwise; and a
\* conversation enters a selection state only by its button's handler, at a
\* moment when the table has a row.
C38_SelectionNeedsCandidate ==
    [][\A u \in ADMIN_IDS :
          /\ \A name \in SelectionOps :
                (/\ pc[u] = "idle"
                 /\ conv[u] \in {TOPICS_MENU, SOURCE_CHATS_MENU}
                 /\ op'[u] = name
                 /\ res'[u] # "db_exc")
                    => IF NoCandidate(name)
                       THEN conv'[u] = END /\ sent'[u] = <<NothingMessage(name)>>
                       ELSE conv'[u] = SelectionState(name)
          /\ \A name \in SelectionOps :
                (conv[u] # SelectionState(name) /\ conv'[u] = SelectionState(name))
                    => (op'[u] = name /\ ~NoCandidate(name))]_vars

\* C38 happens: both source chats were deleted, and the delete button of the
\* source-chat menu ended the conversation with the message that there is
\* nothing to delete.
C38_Witness ==
    \E u \in ADMIN_IDS :
        /\ op[u] = "start_delete_source_chat"
        /\ conv[u] = END
        /\ sent[u] = <<"no_chats">>
        /\ DOMAIN source_chats = {}

\* C39: when the store has not changed since the reload before it, the step
\* that completes a reload leaves the cache equal to the cache that reload
\* began on, which the reload before it had published; also when stored
\* prefixes are equal once lower-cased.
C39_ReloadIsAFunction ==
    [][\A u \in ADMIN_IDS :
          (/\ pc[u] = "r4" /\ pc'[u] = "finish"
           /\ res'[u] = "ok"
           /\ before[u] # <<>>
           /\ ~reloadFailed)
              => Snapshot' = before[u][1]]_vars
====
